---- MODULE Spec2Model ----
(***************************************************************************)
(* Local-File-MCP-Server: the sandboxed file tools of                      *)
(* src/src/fastmcp_server.py (scope-tagged multi-tool server) and the      *)
(* single-key JSON-RPC server of src/src/server.py, over one model of a    *)
(* POSIX filesystem.                                                       *)
(*                                                                         *)
(* Text is a TLA+ string; Len, SubSeq and \o act on it character by        *)
(* character.  A path object (pathlib.Path) is the sequence of its         *)
(* components; Str formats it as str() does.  The filesystem holds no      *)
(* symbolic links (no tool creates one), so Path.resolve() is the lexical  *)
(* normalisation posixpath.realpath performs on link-free paths.           *)
(***************************************************************************)
EXTENDS Integers, Sequences, FiniteSets, TLC

VARIABLES fs, last, calls, ALLOWED_EXTENSIONS, running

vars == <<fs, last, calls, ALLOWED_EXTENSIONS, running>>

(***************************************************************************)
(* Bounds of the model.                                                    *)
(***************************************************************************)
\* Number of requests served in one behaviour.
MaxCalls == 2

(***************************************************************************)
(* Text helpers (Python str methods).                                      *)
(***************************************************************************)
Char(s, i) == SubSeq(s, i, i)

\* s[i:] with i 0-based, as a Python slice
From(s, i) == SubSeq(s, i + 1, Len(s))

\* str.startswith
StartsWith(s, prefix) ==
    /\ Len(prefix) <= Len(s)
    /\ SubSeq(s, 1, Len(prefix)) = prefix

\* str.endswith
EndsWith(s, suffix) ==
    /\ Len(suffix) <= Len(s)
    /\ SubSeq(s, Len(s) - Len(suffix) + 1, Len(s)) = suffix

\* str.lstrip(ch): every leading ch is removed
RECURSIVE LStrip(_, _)
LStrip(s, ch) ==
    IF Len(s) > 0 /\ Char(s, 1) = ch THEN LStrip(Tail(s), ch) ELSE s

\* str.find(sub) from 1-based position i; 0 when sub does not occur
RECURSIVE FindFrom(_, _, _)
FindFrom(s, sub, i) ==
    IF i + Len(sub) - 1 > Len(s) THEN 0
    ELSE IF SubSeq(s, i, i + Len(sub) - 1) = sub THEN i
    ELSE FindFrom(s, sub, i + 1)

\* sub in s
Contains(s, sub) == FindFrom(s, sub, 1) # 0

\* str.rfind(ch) as a 1-based position; 0 when ch does not occur
RECURSIVE RFindChar(_, _, _)
RFindChar(s, ch, i) ==
    IF i = 0 THEN 0
    ELSE IF Char(s, i) = ch THEN i
    ELSE RFindChar(s, ch, i - 1)

\* str.split(sep) for a one-character separator
RECURSIVE Split(_, _)
Split(s, sep) ==
    LET i == FindFrom(s, sep, 1)
    IN  IF i = 0 THEN <<s>>
        ELSE <<SubSeq(s, 1, i - 1)>> \o Split(SubSeq(s, i + 1, Len(s)), sep)

\* sep.join(parts)
RECURSIVE Join(_, _)
Join(parts, sep) ==
    IF parts = <<>> THEN ""
    ELSE IF Len(parts) = 1 THEN parts[1]
    ELSE parts[1] \o sep \o Join(Tail(parts), sep)

\* str.replace(old, new, count); count < 0 replaces every occurrence
RECURSIVE Replace(_, _, _, _)
Replace(s, old, new, count) ==
    LET i == FindFrom(s, old, 1)
    IN  IF count = 0 \/ i = 0 \/ Len(old) = 0 THEN s
        ELSE SubSeq(s, 1, i - 1) \o new
             \o Replace(SubSeq(s, i + Len(old), Len(s)), old, new, count - 1)

\* str.count(sub) of non-overlapping occurrences
RECURSIVE Count(_, _)
Count(s, sub) ==
    LET i == FindFrom(s, sub, 1)
    IN  IF i = 0 \/ Len(sub) = 0 THEN 0
        ELSE 1 + Count(SubSeq(s, i + Len(sub), Len(s)), sub)

\* str.lower on the letters the model uses in upper case
LowerChar(c) ==
    CASE c = "A" -> "a" [] c = "D" -> "d" [] c = "E" -> "e" [] c = "M" -> "m"
      [] c = "T" -> "t" [] c = "X" -> "x" [] OTHER -> c

RECURSIVE Lower(_)
Lower(s) == IF Len(s) = 0 THEN "" ELSE LowerChar(Char(s, 1)) \o Lower(Tail(s))

\* The character that stands for U+00E9 (e acute), which UTF-8 encodes in two
\* bytes; every other character of the model is ASCII and takes one byte.
EAcute == "~"

Utf8Width(c) == IF c = EAcute THEN 2 ELSE 1

\* len(s.encode("utf-8"))
RECURSIVE Utf8Len(_)
Utf8Len(s) == IF Len(s) = 0 THEN 0 ELSE Utf8Width(Char(s, 1)) + Utf8Len(Tail(s))

Range(seq) == {seq[i] : i \in DOMAIN seq}

(***************************************************************************)
(* pathlib.  A Path is the sequence of its components below the root "/".  *)
(***************************************************************************)
\* PurePosixPath(raw).parts without the anchor: empty and "." components drop
PathParts(raw) == SelectSeq(Split(raw, "/"), LAMBDA c : c # "" /\ c # ".")

\* str(path) of an absolute path
Str(path) == IF path = <<>> THEN "/" ELSE "/" \o Join(path, "/")

\* Path.name
Name(parts) == IF parts = <<>> THEN "" ELSE parts[Len(parts)]

\* Path.parent
Parent(path) == IF path = <<>> THEN <<>> ELSE SubSeq(path, 1, Len(path) - 1)

\* PurePath.suffix: the last dot of the name and what follows it, unless that
\* dot is the name's first or last character
Suffix(raw) ==
    LET name == Name(PathParts(raw))
        i    == RFindChar(name, ".", Len(name))
    IN  IF 1 < i /\ i < Len(name) THEN SubSeq(name, i, Len(name)) ELSE ""

\* Path.resolve() of an absolute path on a link-free filesystem: ".." drops
\* the component before it, and stays at the root when there is none
RECURSIVE ResolveOnto(_, _)
ResolveOnto(done, rest) ==
    IF rest = <<>> THEN done
    ELSE IF Head(rest) = ".." THEN ResolveOnto(Parent(done), Tail(rest))
    ELSE ResolveOnto(Append(done, Head(rest)), Tail(rest))

Resolve(path) == ResolveOnto(<<>>, path)

\* path is other or lies below it, component by component
IsRelativeTo(path, other) ==
    /\ Len(other) <= Len(path)
    /\ SubSeq(path, 1, Len(other)) = other

\* every proper ancestor of path, the root included
Ancestors(path) == {SubSeq(path, 1, n) : n \in 0..(Len(path) - 1)}

(***************************************************************************)
(* Configuration read at import time.                                      *)
(***************************************************************************)
\* Path(ALLOWED_PATH).resolve(): the sandbox root
base_dir == <<"allowed">>

\* MCP_MAX_FILE_SIZE, in bytes
MAX_FILE_SIZE == 20

\* The values os.getenv("MCP_ALLOWED_EXTENSIONS", ...).split(",") yields for
\* the settings the model starts from: an empty setting, and ".txt,.md"
ExtensionSettings == {<<"">>, <<".txt", ".md">>}

\* get_access_token() returning None: no authentication is configured
None == [client_id |-> "<None>", scopes |-> {}]

\* tokens with "delete:files" granted to the write key
tokens_write_key_deletes ==
    [MCP_READ_KEY  |-> [client_id |-> "read-only-user",
                        scopes |-> {"read:files"}],
     MCP_WRITE_KEY |-> [client_id |-> "write-user",
                        scopes |-> {"read:files", "write:files", "edit:files",
                                    "delete:files"}],
     MCP_ADMIN_KEY |-> [client_id |-> "admin-user",
                        scopes |-> {"read:files", "write:files", "edit:files",
                                    "delete:files"}]]

tokens ==
    [MCP_READ_KEY  |-> [client_id |-> "read-only-user",
                        scopes |-> {"read:files"}],
     MCP_WRITE_KEY |-> [client_id |-> "write-user",
                        scopes |-> {"read:files", "write:files", "edit:files"}],
     MCP_ADMIN_KEY |-> [client_id |-> "admin-user",
                        scopes |-> {"read:files", "write:files", "edit:files",
                                    "delete:files"}]]

\* what get_access_token() may return
AccessTokens == {None} \cup {tokens[k] : k \in DOMAIN tokens}

(***************************************************************************)
(* The filesystem: a function from the paths that exist to their nodes.    *)
(* A directory is [kind |-> "dir"]; a regular file is                      *)
(* [kind |-> "file", data |-> text], data being the decoded bytes on disk. *)
(***************************************************************************)
Dir == [kind |-> "dir"]

File(data) == [kind |-> "file", data |-> data]

\* Path.exists(): false too when an ancestor is a regular file
Exists(f, path) == path \in DOMAIN f

IsDir(f, path) == Exists(f, path) /\ f[path].kind = "dir"

IsFile(f, path) == Exists(f, path) /\ f[path].kind = "file"

\* the entries of directory path
Children(f, path) == {q \in DOMAIN f : Len(q) = Len(path) + 1 /\ Parent(q) = path}

\* path and everything below it
Subtree(f, path) == {q \in DOMAIN f : IsRelativeTo(q, path)}

\* f with the nodes in `gone` removed
Without(f, gone) == [q \in (DOMAIN f) \ gone |-> f[q]]

\* f with node n at path
With(f, path, n) == [q \in (DOMAIN f) \cup {path} |-> IF q = path THEN n ELSE f[q]]

\* Path.mkdir(parents=True, exist_ok=True) succeeds unless path or one of its
\* ancestors is a regular file
CanMkdirParents(f, path) ==
    \A a \in Ancestors(path) \cup {path} : ~IsFile(f, a)

MkdirParents(f, path) ==
    [q \in (DOMAIN f) \cup Ancestors(path) \cup {path} |->
        IF q \in DOMAIN f THEN f[q] ELSE Dir]

\* open(path, "w") succeeds when path is not a directory and its parent is one
CanWriteText(f, path) == ~IsDir(f, path) /\ path # <<>> /\ IsDir(f, Parent(path))

\* Path.write_text(content, encoding="utf-8"): the characters are written as
\* they are (os.linesep is "\n")
WriteText(f, path, content) == With(f, path, File(content))

\* Path.read_text(encoding="utf-8"): universal newlines, so "\r\n" and a lone
\* "\r" both read as "\n"
ReadText(f, path) == Replace(Replace(f[path].data, "\r\n", "\n", -1), "\r", "\n", -1)

\* str.splitlines() on text whose line ends are "\n", "\r\n" or "\r": a line
\* end at the very end of the text opens no further line
SplitLines(s) ==
    LET t      == Replace(Replace(s, "\r\n", "\n", -1), "\r", "\n", -1)
        pieces == Split(t, "\n")
    IN  IF pieces[Len(pieces)] = "" THEN SubSeq(pieces, 1, Len(pieces) - 1)
        ELSE pieces

(***************************************************************************)
(* What a tool call yields: the text it returns or the error it raises,    *)
(* the filesystem it leaves, and the record of the checks it passed and    *)
(* the filesystem calls it made, in the order the code reaches them.       *)
(***************************************************************************)
Returned(f, text, log) ==
    [fs |-> f, log |-> log, ok |-> TRUE, err |-> "", out |-> text,
     missing |-> {}, paths |-> <<>>]

Raised(f, kind, msg, log) ==
    [fs |-> f, log |-> log, ok |-> FALSE, err |-> kind, out |-> msg,
     missing |-> {}, paths |-> <<>>]

\* str(path.relative_to(base_dir)) for a path at or below base_dir
RelStr(path) ==
    IF Len(path) = Len(base_dir) THEN "."
    ELSE Join(SubSeq(path, Len(base_dir) + 1, Len(path)), "/")

\* Path.relative_to(base_dir) raises ValueError for a path not below base_dir
NotInSubpath(f, path, log) ==
    Raised(f, "NotInSubpath",
           "'" \o Str(path) \o "' is not in the subpath of '" \o Str(base_dir) \o "'",
           log)

\* rel_path = path.relative_to(base_dir); return text, which names rel_path
ReturnRel(f, path, text, log) ==
    IF IsRelativeTo(path, base_dir) THEN Returned(f, text, log)
    ELSE NotInSubpath(f, path, log)

\* rel_path = path.relative_to(base_dir); raise ValueError(text), which names
\* rel_path
RaiseRel(f, path, kind, text, log) ==
    IF IsRelativeTo(path, base_dir) THEN Raised(f, kind, text, log)
    ELSE NotInSubpath(f, path, log)

\* f"File size exceeds limit of {MAX_FILE_SIZE / (1024*1024):.1f}MB"
TooLarge(f, log) == Raised(f, "TooLarge", "File size exceeds limit", log)

(***************************************************************************)
(* fastmcp_server.py: validation.                                          *)
(***************************************************************************)
validate_path(file_path) ==
    LET clean_path == LStrip(file_path, "/")
        full_path  == Resolve(base_dir \o PathParts(clean_path))
    IN  IF ~StartsWith(Str(full_path), Str(base_dir))
        THEN [path |-> full_path, ok |-> FALSE]
        ELSE [path |-> full_path, ok |-> TRUE]

\* validate_file_extension without .lower()
validate_file_extension_case_sensitive(file_path) ==
    IF ALLOWED_EXTENSIONS = <<>> \/ ALLOWED_EXTENSIONS = <<"">> THEN TRUE
    ELSE Suffix(file_path) \in Range(ALLOWED_EXTENSIONS)

validate_file_extension(file_path) ==
    IF ALLOWED_EXTENSIONS = <<>> \/ ALLOWED_EXTENSIONS = <<"">> THEN TRUE
    ELSE Lower(Suffix(file_path)) \in Range(ALLOWED_EXTENSIONS)

\* requires_scopes without "if token:": the subset test is applied to the
\* absent token as well
requires_scopes_without_token_test(f, required_scopes, token, inner) ==
    IF ~(required_scopes \subseteq token.scopes)
    THEN [Raised(f, "InsufficientPermissions", "Insufficient permissions", <<>>)
            EXCEPT !.missing = required_scopes \ token.scopes]
    ELSE [inner EXCEPT !.log = <<"scope">> \o @]

requires_scopes(f, required_scopes, token, inner) ==
    IF token # None /\ ~(required_scopes \subseteq token.scopes)
    THEN [Raised(f, "InsufficientPermissions", "Insufficient permissions", <<>>)
            EXCEPT !.missing = required_scopes \ token.scopes]
    ELSE [inner EXCEPT !.log = <<"scope">> \o @]

\* the path the decorators hand to the tool in place of its argument
validated_path(path_value) ==
    IF path_value = "." THEN base_dir ELSE validate_path(path_value).path

\* inner is what the decorated function yields on validated_path(path_value)
validates_path_and_extension(f, path_value, check_extension, inner) ==
    IF path_value # "." /\ ~validate_path(path_value).ok
    THEN Raised(f, "PathOutside", "Path outside allowed directory", <<>>)
    ELSE IF check_extension /\ ~validate_file_extension(path_value)
    THEN Raised(f, "ExtensionNotAllowed", "File extension not allowed",
                <<"path">>)
    ELSE [inner EXCEPT !.log = (IF check_extension THEN <<"path", "ext">>
                                ELSE <<"path">>) \o @,
                       !.paths = <<validated_path(path_value)>>]

\* inner is what the decorated function yields on the two validated paths
validates_two_paths(f, source_value, dest_value, check_extensions, inner) ==
    IF ~validate_path(source_value).ok
    THEN Raised(f, "PathOutside", "Path outside allowed directory", <<>>)
    ELSE IF ~validate_path(dest_value).ok
    THEN Raised(f, "PathOutside", "Path outside allowed directory", <<"path">>)
    ELSE IF check_extensions /\ ~validate_file_extension(dest_value)
    THEN Raised(f, "ExtensionNotAllowed",
                "Destination file extension not allowed", <<"path", "path">>)
    ELSE [inner EXCEPT !.log = (IF check_extensions
                                THEN <<"path", "path", "ext">>
                                ELSE <<"path", "path">>) \o @,
                       !.paths = <<validate_path(source_value).path,
                                   validate_path(dest_value).path>>]

(***************************************************************************)
(* fastmcp_server.py: whole-file tools.  Each tool is its decorators        *)
(* (outermost first: requires_scopes, then the path validation) around its *)
(* body; f is the filesystem the call finds.                               *)
(***************************************************************************)
\* create_file with the size test moved behind mkdir and write_text
create_file_body_writes_first(f, file_path, content) ==
    IF Exists(f, file_path)
    THEN RaiseRel(f, file_path, "AlreadyExists",
                  "File already exists: " \o RelStr(file_path), <<>>)
    ELSE IF ~CanMkdirParents(f, Parent(file_path))
    THEN Raised(f, "OSError", "mkdir: " \o Str(Parent(file_path)), <<>>)
    ELSE IF Utf8Len(content) > MAX_FILE_SIZE
    THEN TooLarge(WriteText(MkdirParents(f, Parent(file_path)), file_path, content),
                  <<"mkdir", "write">>)
    ELSE ReturnRel(WriteText(MkdirParents(f, Parent(file_path)), file_path, content),
                   file_path,
                   "Successfully created " \o RelStr(file_path) \o " with "
                                \o ToString(Len(content)) \o " characters",
                   <<"mkdir", "write", "size">>)

create_file_body(f, file_path, content) ==
    IF Exists(f, file_path)
    THEN RaiseRel(f, file_path, "AlreadyExists",
                  "File already exists: " \o RelStr(file_path), <<>>)
    ELSE IF Utf8Len(content) > MAX_FILE_SIZE THEN TooLarge(f, <<>>)
    ELSE IF ~CanMkdirParents(f, Parent(file_path))
    THEN Raised(f, "OSError", "mkdir: " \o Str(Parent(file_path)), <<"size">>)
    ELSE ReturnRel(WriteText(MkdirParents(f, Parent(file_path)), file_path, content),
                   file_path,
                   "Successfully created " \o RelStr(file_path) \o " with "
                                \o ToString(Len(content)) \o " characters",
                   <<"size", "mkdir", "write">>)

create_file(f, token, file_path, content) ==
    requires_scopes(f, {"write:files"}, token,
        validates_path_and_extension(f, file_path, TRUE,
            create_file_body(f, validated_path(file_path), content)))

read_file_body(f, file_path) ==
    IF ~Exists(f, file_path)
    THEN RaiseRel(f, file_path, "NotFound",
                  "File does not exist: " \o RelStr(file_path), <<>>)
    ELSE IF IsDir(f, file_path)
    THEN RaiseRel(f, file_path, "IsDirectory",
                  "Path is a directory: " \o RelStr(file_path), <<>>)
    ELSE ReturnRel(f, file_path,
                   "File: " \o RelStr(file_path) \o "\n\n" \o ReadText(f, file_path),
                   <<"read">>)

read_file(f, token, file_path) ==
    requires_scopes(f, {"read:files"}, token,
        validates_path_and_extension(f, file_path, FALSE,
            read_file_body(f, validated_path(file_path))))

write_file_body(f, file_path, content) ==
    IF ~Exists(f, file_path)
    THEN RaiseRel(f, file_path, "NotFound",
                  "File does not exist: " \o RelStr(file_path), <<>>)
    ELSE IF Utf8Len(content) > MAX_FILE_SIZE THEN TooLarge(f, <<>>)
    ELSE IF ~CanWriteText(f, file_path)
    THEN Raised(f, "OSError", "open: " \o Str(file_path), <<"size">>)
    ELSE ReturnRel(WriteText(f, file_path, content), file_path,
                   "Successfully wrote " \o ToString(Len(content))
                                \o " characters to " \o RelStr(file_path),
                   <<"size", "write">>)

write_file(f, token, file_path, content) ==
    requires_scopes(f, {"write:files"}, token,
        validates_path_and_extension(f, file_path, TRUE,
            write_file_body(f, validated_path(file_path), content)))

\* delete_file with unlink(missing_ok=True) and no existence test
delete_file_body_missing_ok(f, file_path) ==
    IF IsDir(f, file_path)
    THEN RaiseRel(f, file_path, "IsDirectory",
                  "Cannot delete directory: " \o RelStr(file_path), <<>>)
    ELSE ReturnRel(Without(f, {file_path}), file_path,
                   "Successfully deleted " \o RelStr(file_path), <<"unlink">>)

delete_file_body(f, file_path) ==
    IF ~Exists(f, file_path)
    THEN RaiseRel(f, file_path, "NotFound",
                  "File does not exist: " \o RelStr(file_path), <<>>)
    ELSE IF IsDir(f, file_path)
    THEN RaiseRel(f, file_path, "IsDirectory",
                  "Cannot delete directory: " \o RelStr(file_path), <<>>)
    ELSE ReturnRel(Without(f, {file_path}), file_path,
                   "Successfully deleted " \o RelStr(file_path), <<"unlink">>)

delete_file(f, token, file_path) ==
    requires_scopes(f, {"delete:files"}, token,
        validates_path_and_extension(f, file_path, FALSE,
            delete_file_body(f, validated_path(file_path))))

(***************************************************************************)
(* Ordering of text, for sorted(): characters compare by code point.       *)
(***************************************************************************)
\* the characters of the model in code-point order ("~" stands for U+00E9)
CodePointOrder ==
    "\n\r #'()*-./0123456789:ABCDEFGHIJKLMNOPQRSTUVWXYZ[\\]^_abcdefghijklmnopqrstuvwxyz~"

Ord(c) == FindFrom(CodePointOrder, c, 1)

RECURSIVE TextLess(_, _)
TextLess(a, b) ==
    IF Len(b) = 0 THEN FALSE
    ELSE IF Len(a) = 0 THEN TRUE
    ELSE IF Char(a, 1) = Char(b, 1) THEN TextLess(Tail(a), Tail(b))
    ELSE Ord(Char(a, 1)) < Ord(Char(b, 1))

\* paths compare as the tuples of their components
RECURSIVE PathLess(_, _)
PathLess(p, q) ==
    IF q = <<>> THEN FALSE
    ELSE IF p = <<>> THEN TRUE
    ELSE IF Head(p) = Head(q) THEN PathLess(Tail(p), Tail(q))
    ELSE TextLess(Head(p), Head(q))

\* sorted(paths, reverse=True)
RECURSIVE SortedPaths_descending(_)
SortedPaths_descending(paths) ==
    IF paths = {} THEN <<>>
    ELSE LET most == CHOOSE p \in paths : \A q \in paths \ {p} : PathLess(q, p)
         IN  <<most>> \o SortedPaths_descending(paths \ {most})

\* sorted(paths)
RECURSIVE SortedPaths(_)
SortedPaths(paths) ==
    IF paths = {} THEN <<>>
    ELSE LET least == CHOOSE p \in paths : \A q \in paths \ {p} : PathLess(p, q)
         IN  <<least>> \o SortedPaths(paths \ {least})

(***************************************************************************)
(* fastmcp_server.py: list_files.                                          *)
(***************************************************************************)
\* f"{item_type}: {rel_path}" of every item, in order
RECURSIVE ListingLines(_, _)
ListingLines(f, items) ==
    IF items = <<>> THEN <<>>
    ELSE <<(IF IsDir(f, Head(items)) THEN "directory" ELSE "file")
            \o ": " \o RelStr(Head(items))>> \o ListingLines(f, Tail(items))

list_files_body(f, directory_path) ==
    IF ~Exists(f, directory_path)
    THEN RaiseRel(f, directory_path, "NotFound",
                  "Directory does not exist: " \o RelStr(directory_path), <<>>)
    ELSE IF IsFile(f, directory_path)
    THEN RaiseRel(f, directory_path, "IsFile",
                  "Path is a file: " \o RelStr(directory_path), <<>>)
    ELSE ReturnRel(f, directory_path,
                   "Contents of " \o RelStr(directory_path) \o ":\n"
                       \o Join(ListingLines(f, SortedPaths(Children(f, directory_path))),
                               "\n"),
                   <<"iterdir">>)

list_files(f, token, directory_path) ==
    requires_scopes(f, {"read:files"}, token,
        validates_path_and_extension(f, directory_path, FALSE,
            list_files_body(f, validated_path(directory_path))))

(***************************************************************************)
(* fastmcp_server.py: line-based tools.  Line numbers are 1-based;          *)
(* Slice(lines, a, b) is the Python slice lines[a:b] for 0 <= a.           *)
(***************************************************************************)
Min(a, b) == IF a < b THEN a ELSE b

Max(a, b) == IF a > b THEN a ELSE b

Slice(lines, a, b) == SubSeq(lines, a + 1, Min(b, Len(lines)))

\* f"{i}: {line}\n" for the lines numbered from n on
RECURSIVE NumberedLines(_, _)
NumberedLines(lines, n) ==
    IF lines = <<>> THEN ""
    ELSE ToString(n) \o ": " \o Head(lines) \o "\n" \o NumberedLines(Tail(lines), n + 1)

\* str.rstrip(): trailing whitespace is removed
RECURSIVE RStrip(_)
RStrip(s) ==
    IF Len(s) > 0 /\ Char(s, Len(s)) \in {" ", "\n", "\r"}
    THEN RStrip(SubSeq(s, 1, Len(s) - 1)) ELSE s

\* the checks every line tool starts with
Missing(f, file_path) ==
    RaiseRel(f, file_path, "NotFound",
             "File does not exist: " \o RelStr(file_path), <<>>)

\* read_text on a directory raises IsADirectoryError
NotReadable(f, file_path) == Raised(f, "OSError", "open: " \o Str(file_path), <<>>)

read_lines_body(f, file_path, start_line, end_line) ==
    IF ~Exists(f, file_path) THEN Missing(f, file_path)
    ELSE IF IsDir(f, file_path)
    THEN RaiseRel(f, file_path, "IsDirectory",
                  "Path is a directory: " \o RelStr(file_path), <<>>)
    ELSE LET lines     == SplitLines(ReadText(f, file_path))
             start_idx == Max(0, start_line - 1)
             end_idx   == Min(Len(lines), end_line)
         IN  IF start_idx >= Len(lines)
             THEN Raised(f, "RangeExceeded",
                         "Start line " \o ToString(start_line)
                         \o " exceeds file length (" \o ToString(Len(lines))
                         \o " lines)", <<"read">>)
             ELSE ReturnRel(f, file_path,
                     RStrip("Lines " \o ToString(start_line) \o "-"
                         \o ToString(end_line) \o " from " \o RelStr(file_path) \o ":\n"
                         \o NumberedLines(Slice(lines, start_idx, end_idx), start_line)),
                     <<"read">>)

read_lines(f, token, file_path, start_line, end_line) ==
    requires_scopes(f, {"read:files"}, token,
        validates_path_and_extension(f, file_path, FALSE,
            read_lines_body(f, validated_path(file_path), start_line, end_line)))

\* the size test on len(new_content), the number of characters
WriteChecked_counts_characters(f, file_path, new_content, text) ==
    IF Len(new_content) > MAX_FILE_SIZE THEN TooLarge(f, <<"read">>)
    ELSE ReturnRel(WriteText(f, file_path, new_content), file_path, text,
                   <<"read", "size", "write">>)

\* the size check and the write every editing tool ends with: new_content
\* replaces the file's content, and text, which names rel_path, is returned
WriteChecked(f, file_path, new_content, text) ==
    IF Utf8Len(new_content) > MAX_FILE_SIZE THEN TooLarge(f, <<"read">>)
    ELSE ReturnRel(WriteText(f, file_path, new_content), file_path, text,
                   <<"read", "size", "write">>)

write_lines_body(f, file_path, lines_array, start_line) ==
    IF ~Exists(f, file_path) THEN Missing(f, file_path)
    ELSE IF IsDir(f, file_path) THEN NotReadable(f, file_path)
    ELSE LET existing_lines == SplitLines(ReadText(f, file_path))
             start_idx      == start_line - 1
             new_lines      == Slice(existing_lines, 0, start_idx) \o lines_array
                               \o Slice(existing_lines, start_idx + Len(lines_array),
                                        Len(existing_lines))
         IN  IF start_idx < 0
             THEN Raised(f, "InvalidLine", "Line number must be >= 1", <<"read">>)
             ELSE WriteChecked(f, file_path, Join(new_lines, "\n"),
                     "Successfully wrote " \o ToString(Len(lines_array))
                         \o " lines to " \o RelStr(file_path) \o " starting at line "
                         \o ToString(start_line))

write_lines(f, token, file_path, lines_array, start_line) ==
    requires_scopes(f, {"write:files"}, token,
        validates_path_and_extension(f, file_path, TRUE,
            write_lines_body(f, validated_path(file_path), lines_array, start_line)))

insert_lines_body(f, file_path, content, line_number) ==
    IF ~Exists(f, file_path) THEN Missing(f, file_path)
    ELSE IF IsDir(f, file_path) THEN NotReadable(f, file_path)
    ELSE LET existing_lines == SplitLines(ReadText(f, file_path))
             insert_idx     == line_number - 1
             content_lines  == SplitLines(content)
             new_lines      == Slice(existing_lines, 0, insert_idx) \o content_lines
                               \o Slice(existing_lines, insert_idx, Len(existing_lines))
         IN  IF insert_idx < 0
             THEN Raised(f, "InvalidLine", "Line number must be >= 1", <<"read">>)
             ELSE WriteChecked(f, file_path, Join(new_lines, "\n"),
                     "Successfully inserted "
                         \o ToString(Len(content_lines)) \o " lines to " \o RelStr(file_path)
                         \o " at line " \o ToString(line_number))

insert_lines(f, token, file_path, content, line_number) ==
    requires_scopes(f, {"write:files"}, token,
        validates_path_and_extension(f, file_path, TRUE,
            insert_lines_body(f, validated_path(file_path), content, line_number)))

delete_lines_body(f, file_path, start_line, end_line) ==
    IF ~Exists(f, file_path) THEN Missing(f, file_path)
    ELSE IF IsDir(f, file_path) THEN NotReadable(f, file_path)
    ELSE LET existing_lines == SplitLines(ReadText(f, file_path))
             start_idx      == start_line - 1
             end_idx        == end_line
             new_lines      == Slice(existing_lines, 0, start_idx)
                               \o Slice(existing_lines, end_idx, Len(existing_lines))
         IN  IF start_idx < 0 \/ start_line > end_line
             THEN Raised(f, "InvalidRange", "Invalid line range", <<"read">>)
             ELSE IF start_idx >= Len(existing_lines)
             THEN Raised(f, "RangeExceeded",
                         "Start line " \o ToString(start_line)
                         \o " exceeds file length ("
                         \o ToString(Len(existing_lines)) \o " lines)", <<"read">>)
             ELSE ReturnRel(WriteText(f, file_path, Join(new_lines, "\n")), file_path,
                     "Successfully deleted "
                         \o ToString(end_line - start_line + 1) \o " lines from "
                         \o RelStr(file_path) \o " (lines " \o ToString(start_line) \o "-"
                         \o ToString(end_line) \o ")",
                     <<"read", "write">>)

delete_lines(f, token, file_path, start_line, end_line) ==
    requires_scopes(f, {"write:files"}, token,
        validates_path_and_extension(f, file_path, TRUE,
            delete_lines_body(f, validated_path(file_path), start_line, end_line)))

append_lines_body(f, file_path, content) ==
    IF ~Exists(f, file_path) THEN Missing(f, file_path)
    ELSE IF IsDir(f, file_path) THEN NotReadable(f, file_path)
    ELSE LET existing_content == ReadText(f, file_path)
             separator        == IF EndsWith(existing_content, "\n") THEN "" ELSE "\n"
         IN  WriteChecked(f, file_path, existing_content \o separator \o content,
                 "Successfully appended "
                     \o ToString(Len(SplitLines(content))) \o " lines to " \o RelStr(file_path))

append_lines(f, token, file_path, content) ==
    requires_scopes(f, {"write:files"}, token,
        validates_path_and_extension(f, file_path, TRUE,
            append_lines_body(f, validated_path(file_path), content)))

(***************************************************************************)
(* fastmcp_server.py: search and replace.                                  *)
(*                                                                         *)
(* Regular expressions are modelled for the dialect the model's patterns   *)
(* use: "^" at the start anchors the match at the start of the line, "$"   *)
(* at the end anchors it at the end, the characters between are literal;   *)
(* a pattern holding "(" or "[" has an unclosed group or set and does not  *)
(* compile (re.error).                                                     *)
(***************************************************************************)
ReCompiles(pattern) == ~Contains(pattern, "(") /\ ~Contains(pattern, "[")

\* re.search(pattern, line) finds a match
ReSearch(pattern, line) ==
    LET anchored_start == StartsWith(pattern, "^")
        p1             == IF anchored_start THEN Tail(pattern) ELSE pattern
        anchored_end   == EndsWith(p1, "$")
        literal        == IF anchored_end THEN SubSeq(p1, 1, Len(p1) - 1) ELSE p1
    IN  CASE anchored_start /\ anchored_end -> line = literal
          [] anchored_start                 -> StartsWith(line, literal)
          [] anchored_end                   -> EndsWith(line, literal)
          [] OTHER                          -> Contains(line, literal) \/ literal = ""

\* the loop leaving at its first match
RECURSIVE SearchLoop_first_match_only(_, _, _, _)
SearchLoop_first_match_only(lines, line_num, pattern, regex) ==
    IF lines = <<>> THEN [ok |-> TRUE, matches |-> <<>>]
    ELSE IF regex /\ ~ReCompiles(pattern) THEN [ok |-> FALSE, matches |-> <<>>]
    ELSE LET hit == IF regex THEN ReSearch(pattern, Head(lines))
                    ELSE Contains(Head(lines), pattern) \/ pattern = ""
         IN  IF hit
             THEN [ok |-> TRUE,
                   matches |-> <<ToString(line_num) \o ": " \o Head(lines)>>]
             ELSE SearchLoop_first_match_only(Tail(lines), line_num + 1,
                                              pattern, regex)

\* the loop over enumerate(lines, 1): the matches collected so far, or the
\* re.error the first line raises for a pattern that does not compile
RECURSIVE SearchLoop(_, _, _, _)
SearchLoop(lines, line_num, pattern, regex) ==
    IF lines = <<>> THEN [ok |-> TRUE, matches |-> <<>>]
    ELSE IF regex /\ ~ReCompiles(pattern) THEN [ok |-> FALSE, matches |-> <<>>]
    ELSE LET rest == SearchLoop(Tail(lines), line_num + 1, pattern, regex)
             hit  == IF regex THEN ReSearch(pattern, Head(lines))
                     ELSE Contains(Head(lines), pattern) \/ pattern = ""
         IN  IF hit
             THEN [rest EXCEPT !.matches =
                      <<ToString(line_num) \o ": " \o Head(lines)>> \o @]
             ELSE rest

search_in_file_body(f, file_path, pattern, regex) ==
    IF ~Exists(f, file_path) THEN Missing(f, file_path)
    ELSE IF IsDir(f, file_path)
    THEN RaiseRel(f, file_path, "IsDirectory",
                  "Path is a directory: " \o RelStr(file_path), <<>>)
    ELSE LET found == SearchLoop(SplitLines(ReadText(f, file_path)), 1, pattern, regex)
         IN  IF ~found.ok
             THEN Raised(f, "InvalidRegex", "Invalid regex pattern", <<"read">>)
             ELSE IF found.matches # <<>>
             THEN ReturnRel(f, file_path,
                     "Found " \o ToString(Len(found.matches))
                         \o " matches in " \o RelStr(file_path) \o ":\n"
                         \o Join(found.matches, "\n"), <<"read">>)
             ELSE ReturnRel(f, file_path,
                     "No matches found for '" \o pattern \o "' in " \o RelStr(file_path),
                     <<"read">>)

search_in_file(f, token, file_path, pattern, regex) ==
    requires_scopes(f, {"read:files"}, token,
        validates_path_and_extension(f, file_path, FALSE,
            search_in_file_body(f, validated_path(file_path), pattern, regex)))

\* str.count(sub): an empty sub occurs len(s) + 1 times
PyCount(s, sub) == IF Len(sub) = 0 THEN Len(s) + 1 ELSE Count(s, sub)

\* str.replace(old, new, count): an empty old matches before every character
\* and at the end
RECURSIVE Interleave(_, _, _)
Interleave(s, new, count) ==
    IF count = 0 THEN s
    ELSE IF Len(s) = 0 THEN new
    ELSE new \o Char(s, 1) \o Interleave(Tail(s), new, count - 1)

PyReplace(s, old, new, count) ==
    IF Len(old) = 0 THEN Interleave(s, new, count) ELSE Replace(s, old, new, count)

\* replace_in_file reporting content.count(search) whatever `all` is
replace_in_file_body_reports_count(f, file_path, search, replace, all) ==
    IF ~Exists(f, file_path) THEN Missing(f, file_path)
    ELSE IF IsDir(f, file_path) THEN NotReadable(f, file_path)
    ELSE LET content     == ReadText(f, file_path)
             count       == PyCount(content, search)
             new_content == IF all THEN PyReplace(content, search, replace, -1)
                            ELSE PyReplace(content, search, replace, 1)
         IN  IF count = 0
             THEN ReturnRel(f, file_path,
                     "No occurrences of '" \o search \o "' found in " \o RelStr(file_path),
                     <<"read">>)
             ELSE WriteChecked(f, file_path, new_content,
                     "Successfully replaced " \o ToString(count)
                         \o " occurrence(s) of '" \o search \o "' in " \o RelStr(file_path))

replace_in_file_body(f, file_path, search, replace, all) ==
    IF ~Exists(f, file_path) THEN Missing(f, file_path)
    ELSE IF IsDir(f, file_path) THEN NotReadable(f, file_path)
    ELSE LET content        == ReadText(f, file_path)
             count          == PyCount(content, search)
             new_content    == IF all THEN PyReplace(content, search, replace, -1)
                               ELSE PyReplace(content, search, replace, 1)
             replaced_count == IF all THEN count ELSE 1
         IN  IF count = 0
             THEN ReturnRel(f, file_path,
                     "No occurrences of '" \o search \o "' found in " \o RelStr(file_path),
                     <<"read">>)
             ELSE WriteChecked(f, file_path, new_content,
                     "Successfully replaced " \o ToString(replaced_count)
                         \o " occurrence(s) of '" \o search \o "' in " \o RelStr(file_path))

replace_in_file(f, token, file_path, search, replace, all) ==
    requires_scopes(f, {"write:files"}, token,
        validates_path_and_extension(f, file_path, TRUE,
            replace_in_file_body(f, validated_path(file_path), search, replace, all)))

\* the loop over lines: every line holding line_pattern becomes replacement
RECURSIVE ReplaceLines(_, _, _)
ReplaceLines(lines, line_pattern, replacement) ==
    IF lines = <<>> THEN [new_lines |-> <<>>, replaced_count |-> 0]
    ELSE LET rest == ReplaceLines(Tail(lines), line_pattern, replacement)
         IN  IF Contains(Head(lines), line_pattern) \/ line_pattern = ""
             THEN [new_lines |-> <<replacement>> \o rest.new_lines,
                   replaced_count |-> rest.replaced_count + 1]
             ELSE [rest EXCEPT !.new_lines = <<Head(lines)>> \o @]

find_and_replace_lines_body(f, file_path, line_pattern, replacement) ==
    IF ~Exists(f, file_path) THEN Missing(f, file_path)
    ELSE IF IsDir(f, file_path) THEN NotReadable(f, file_path)
    ELSE LET r == ReplaceLines(SplitLines(ReadText(f, file_path)), line_pattern,
                               replacement)
         IN  IF r.replaced_count = 0
             THEN ReturnRel(f, file_path,
                     "No lines matching '" \o line_pattern
                         \o "' found in " \o RelStr(file_path), <<"read">>)
             ELSE WriteChecked(f, file_path, Join(r.new_lines, "\n"),
                     "Successfully replaced " \o ToString(r.replaced_count)
                         \o " line(s) matching '" \o line_pattern \o "' in " \o RelStr(file_path))

find_and_replace_lines(f, token, file_path, line_pattern, replacement) ==
    requires_scopes(f, {"write:files"}, token,
        validates_path_and_extension(f, file_path, TRUE,
            find_and_replace_lines_body(f, validated_path(file_path), line_pattern, replacement)))

(***************************************************************************)
(* fastmcp_server.py: copy, move, metadata.                                *)
(***************************************************************************)
\* os.rename(source, dest) of a file or a whole directory; dest is absent
Rename(f, source, dest) ==
    LET moved == Subtree(f, source)
        Target(q) == dest \o SubSeq(q, Len(source) + 1, Len(q))
    IN  [q \in ((DOMAIN f) \ moved) \cup {Target(m) : m \in moved} |->
            IF q \in (DOMAIN f) \ moved THEN f[q]
            ELSE f[CHOOSE m \in moved : Target(m) = q]]

\* the checks copy_file and move_file share; then, on the filesystem in
\* which dest's parent directories exist, shutil.copy2 (dest receives the
\* bytes of source) or shutil.move (os.rename)
file_transfer_body(f, source_path, dest_path, call, verb) ==
    IF ~Exists(f, source_path)
    THEN RaiseRel(f, source_path, "SourceNotFound",
                  "Source file does not exist: " \o RelStr(source_path), <<>>)
    ELSE IF IsDir(f, source_path)
    THEN RaiseRel(f, source_path, "SourceIsDirectory",
                  "Source is a directory: " \o RelStr(source_path), <<>>)
    ELSE IF Exists(f, dest_path)
    THEN RaiseRel(f, dest_path, "DestExists",
                  "Destination already exists: " \o RelStr(dest_path), <<>>)
    ELSE IF ~CanMkdirParents(f, Parent(dest_path))
    THEN Raised(f, "OSError", "mkdir: " \o Str(Parent(dest_path)), <<>>)
    ELSE LET made == MkdirParents(f, Parent(dest_path))
             done == IF call = "copy" THEN With(made, dest_path, f[source_path])
                     ELSE Rename(made, source_path, dest_path)
         IN  IF ~IsRelativeTo(source_path, base_dir)
             THEN NotInSubpath(done, source_path, <<"mkdir", call>>)
             ELSE ReturnRel(done, dest_path,
                     "Successfully " \o verb \o " " \o RelStr(source_path)
                         \o " to " \o RelStr(dest_path), <<"mkdir", call>>)

\* copy_file without the test for an existing destination
copy_file_body_overwrites(f, source_path, dest_path) ==
    IF ~Exists(f, source_path)
    THEN RaiseRel(f, source_path, "SourceNotFound",
                  "Source file does not exist: " \o RelStr(source_path), <<>>)
    ELSE IF IsDir(f, source_path)
    THEN RaiseRel(f, source_path, "SourceIsDirectory",
                  "Source is a directory: " \o RelStr(source_path), <<>>)
    ELSE IF ~CanMkdirParents(f, Parent(dest_path)) \/ IsDir(f, dest_path)
    THEN Raised(f, "OSError", "mkdir: " \o Str(Parent(dest_path)), <<>>)
    ELSE ReturnRel(With(MkdirParents(f, Parent(dest_path)), dest_path,
                        f[source_path]),
                   dest_path,
                   "Successfully copied " \o RelStr(source_path)
                       \o " to " \o RelStr(dest_path), <<"mkdir", "copy">>)

copy_file_body(f, source_path, dest_path) ==
    file_transfer_body(f, source_path, dest_path, "copy", "copied")

copy_file(f, token, source_path, dest_path) ==
    requires_scopes(f, {"write:files"}, token,
        validates_two_paths(f, source_path, dest_path, TRUE,
            copy_file_body(f, validate_path(source_path).path,
                validate_path(dest_path).path)))

\* move_file leaving the source where it is
move_file_body_keeps_source(f, source_path, dest_path) ==
    file_transfer_body(f, source_path, dest_path, "copy", "moved")

move_file_body(f, source_path, dest_path) ==
    file_transfer_body(f, source_path, dest_path, "rename", "moved")

move_file(f, token, source_path, dest_path) ==
    requires_scopes(f, {"write:files"}, token,
        validates_two_paths(f, source_path, dest_path, TRUE,
            move_file_body(f, validate_path(source_path).path,
                validate_path(dest_path).path)))

\* Type and size as get_file_info reports them (st_size is the byte length on
\* disk); the modification time and the permission bits are not modelled
get_file_info_body(f, file_path) ==
    IF ~Exists(f, file_path) THEN Missing(f, file_path)
    ELSE ReturnRel(f, file_path,
            "File info for " \o RelStr(file_path) \o ":\nType: "
                \o (IF IsDir(f, file_path) THEN "directory\nSize: N/A (directory)"
                    ELSE "file\nSize: " \o ToString(Utf8Len(f[file_path].data))
                         \o " bytes"),
            <<"stat">>)

get_file_info(f, token, file_path) ==
    requires_scopes(f, {"read:files"}, token,
        validates_path_and_extension(f, file_path, FALSE,
            get_file_info_body(f, validated_path(file_path))))

file_exists_body(f, file_path) ==
    ReturnRel(f, file_path,
        IF Exists(f, file_path)
                     THEN RelStr(file_path) \o " exists ("
                          \o (IF IsDir(f, file_path) THEN "directory" ELSE "file") \o ")"
                     ELSE RelStr(file_path) \o " does not exist",
        <<"stat">>)

file_exists(f, token, file_path) ==
    requires_scopes(f, {"read:files"}, token,
        validates_path_and_extension(f, file_path, FALSE,
            file_exists_body(f, validated_path(file_path))))

(***************************************************************************)
(* fastmcp_server.py: directory tools.                                     *)
(***************************************************************************)
create_directory_body(f, dir_path) ==
    IF Exists(f, dir_path)
    THEN RaiseRel(f, dir_path, "AlreadyExists",
                  "Directory already exists: " \o RelStr(dir_path), <<>>)
    ELSE IF ~CanMkdirParents(f, dir_path)
    THEN Raised(f, "OSError", "mkdir: " \o Str(dir_path), <<>>)
    ELSE ReturnRel(MkdirParents(f, dir_path), dir_path,
                   "Successfully created directory: " \o RelStr(dir_path), <<"mkdir">>)

create_directory(f, token, dir_path) ==
    requires_scopes(f, {"write:files"}, token,
        validates_path_and_extension(f, dir_path, FALSE,
            create_directory_body(f, validated_path(dir_path))))

\* delete_directory without the test for entries: shutil.rmtree in every case
delete_directory_body_always_rmtree(f, dir_path, recursive) ==
    IF ~Exists(f, dir_path)
    THEN RaiseRel(f, dir_path, "NotFound",
                  "Directory does not exist: " \o RelStr(dir_path), <<>>)
    ELSE IF ~IsDir(f, dir_path)
    THEN RaiseRel(f, dir_path, "NotDirectory",
                  "Path is not a directory: " \o RelStr(dir_path), <<>>)
    ELSE ReturnRel(Without(f, Subtree(f, dir_path)), dir_path,
                   "Successfully deleted directory: " \o RelStr(dir_path),
                   <<"rmtree">>)

delete_directory_body(f, dir_path, recursive) ==
    IF ~Exists(f, dir_path)
    THEN RaiseRel(f, dir_path, "NotFound",
                  "Directory does not exist: " \o RelStr(dir_path), <<>>)
    ELSE IF ~IsDir(f, dir_path)
    THEN RaiseRel(f, dir_path, "NotDirectory",
                  "Path is not a directory: " \o RelStr(dir_path), <<>>)
    ELSE IF ~recursive /\ Children(f, dir_path) # {}
    THEN RaiseRel(f, dir_path, "NotEmpty",
                  "Directory not empty: " \o RelStr(dir_path)
                               \o ". Use recursive=true to force delete", <<"iterdir">>)
    ELSE ReturnRel(Without(f, Subtree(f, dir_path)), dir_path,
                   "Successfully deleted directory: " \o RelStr(dir_path),
                   <<IF recursive THEN "rmtree" ELSE "rmdir">>)

delete_directory(f, token, dir_path, recursive) ==
    requires_scopes(f, {"delete:files"}, token,
        validates_path_and_extension(f, dir_path, FALSE,
            delete_directory_body(f, validated_path(dir_path), recursive)))

\* PurePath.match for the patterns the model uses: "*" followed by literal
\* text matches a name that ends with that text
GlobMatch(path, pattern) ==
    IF StartsWith(pattern, "*") THEN EndsWith(Name(path), Tail(pattern))
    ELSE Name(path) = pattern

\* one line of the recursive listing per item
RECURSIVE RecursiveLines(_, _)
RecursiveLines(f, items) ==
    IF items = <<>> THEN <<>>
    ELSE LET item == Head(items)
         IN  <<IF IsFile(f, item)
               THEN "file: " \o RelStr(item) \o " ("
                    \o ToString(Utf8Len(f[item].data)) \o "B)"
               ELSE "directory: " \o RelStr(item) \o "/">>
             \o RecursiveLines(f, Tail(items))

\* Path.rglob("*") yields the subtree in an order the operating system
\* decides; the listing is given in sorted order, one of those orders
list_files_recursive_body(f, dir_path, pattern) ==
    IF ~Exists(f, dir_path)
    THEN RaiseRel(f, dir_path, "NotFound",
                  "Directory does not exist: " \o RelStr(dir_path), <<>>)
    ELSE IF ~IsDir(f, dir_path)
    THEN RaiseRel(f, dir_path, "NotDirectory",
                  "Path is not a directory: " \o RelStr(dir_path), <<>>)
    ELSE IF Subtree(f, dir_path) # {dir_path} /\ ~IsRelativeTo(dir_path, base_dir)
    THEN NotInSubpath(f, dir_path, <<"rglob">>)
    ELSE LET items == SortedPaths({q \in Subtree(f, dir_path) \ {dir_path} :
                                      pattern = "" \/ GlobMatch(q, pattern)})
             pattern_str == IF pattern = "" THEN ""
                            ELSE " (pattern: " \o pattern \o ")"
         IN  ReturnRel(f, dir_path,
                IF items # <<>>
                             THEN "Recursive listing of " \o RelStr(dir_path) \o pattern_str \o ":\n"
                                  \o Join(RecursiveLines(f, items), "\n")
                             ELSE "No items found in " \o RelStr(dir_path) \o pattern_str,
                <<"rglob">>)

list_files_recursive(f, token, dir_path, pattern) ==
    requires_scopes(f, {"read:files"}, token,
        validates_path_and_extension(f, dir_path, FALSE,
            list_files_recursive_body(f, validated_path(dir_path), pattern)))

move_directory_body(f, source_path, dest_path) ==
    IF ~Exists(f, source_path)
    THEN RaiseRel(f, source_path, "SourceNotFound",
                  "Source directory does not exist: " \o RelStr(source_path), <<>>)
    ELSE IF ~IsDir(f, source_path)
    THEN RaiseRel(f, source_path, "NotDirectory",
                  "Source is not a directory: " \o RelStr(source_path), <<>>)
    ELSE IF Exists(f, dest_path)
    THEN RaiseRel(f, dest_path, "DestExists",
                  "Destination already exists: " \o RelStr(dest_path), <<>>)
    ELSE IF ~CanMkdirParents(f, Parent(dest_path))
    THEN Raised(f, "OSError", "mkdir: " \o Str(Parent(dest_path)), <<>>)
    ELSE LET made == MkdirParents(f, Parent(dest_path))
         IN  IF IsRelativeTo(dest_path, source_path)
             THEN Raised(made, "OSError", "Cannot move a directory into itself",
                         <<"mkdir">>)
             ELSE IF ~IsRelativeTo(source_path, base_dir)
             THEN NotInSubpath(Rename(made, source_path, dest_path), source_path,
                               <<"mkdir", "rename">>)
             ELSE ReturnRel(Rename(made, source_path, dest_path), dest_path,
                     "Successfully moved directory "
                         \o RelStr(source_path) \o " to " \o RelStr(dest_path),
                     <<"mkdir", "rename">>)

move_directory(f, token, source_path, dest_path) ==
    requires_scopes(f, {"write:files"}, token,
        validates_two_paths(f, source_path, dest_path, FALSE,
            move_directory_body(f, validate_path(source_path).path,
                validate_path(dest_path).path)))

(***************************************************************************)
(* server.py: the single-key JSON-RPC server.  A JSON object is a function *)
(* from its keys; Get is dict.get.  A request id is carried as its JSON    *)
(* text ("3", "null"); PyNone is Python's None where text is expected.     *)
(***************************************************************************)
PyNone == "<None>"

Get(d, key, default) == IF key \in DOMAIN d THEN d[key] ELSE default

\* CONFIG["API_KEY"]
API_KEY == "key1"

\* hmac.compare_digest raises TypeError for text with a non-ASCII character
IsAscii(s) == \A i \in 1..Len(s) : Char(s, i) # EAcute

MCPFileServer_validate_api_key(provided_key) ==
    IF ~IsAscii(provided_key) THEN [raised |-> TRUE, valid |-> FALSE]
    ELSE [raised |-> FALSE, valid |-> API_KEY = provided_key]

\* server.py strips every entry of MCP_ALLOWED_EXTENSIONS; an empty list alone
\* lifts the restriction
MCPFileServer_validate_file_extension(file_path) ==
    IF ALLOWED_EXTENSIONS = <<>> THEN TRUE
    ELSE Lower(Suffix(file_path)) \in Range(ALLOWED_EXTENSIONS)

MCPFileServer_validate_file_size(content) == Utf8Len(content) <= MAX_FILE_SIZE

MCPFileServer_validate_path(file_path) ==
    LET clean_path == LStrip(file_path, "/")
        full_path  == Resolve(base_dir \o PathParts(clean_path))
    IN  IF ~StartsWith(Str(full_path), Str(base_dir))
        THEN [path |-> full_path, ok |-> FALSE]
        ELSE [path |-> full_path, ok |-> TRUE]

\* error_response answering without the request's id
error_response_without_id(request_id, code, message) ==
    [jsonrpc |-> "2.0", id |-> "null",
     error |-> [code |-> code, message |-> message]]

\* A response, with the filesystem the request leaves and the record of the
\* checks passed and the filesystem calls made
error_response(request_id, code, message) ==
    [jsonrpc |-> "2.0", id |-> request_id,
     error |-> [code |-> code, message |-> message]]

Answer(f, response, log) == [fs |-> f, log |-> log, response |-> response]

ResultResponse(request_id, text) ==
    [jsonrpc |-> "2.0", id |-> request_id,
     result |-> [content |-> <<[text |-> text, type |-> "text"]>>]]

\* the branch of execute_file_operation for one operation; any exception is
\* answered -32000 "File operation failed" by the enclosing handler
operation_branch(f, request_id, operation, file_path, full_path, content, log) ==
    LET Fails(message) == Answer(f, error_response(request_id, -32000, message), log)
    IN  CASE operation = "read" ->
                IF ~Exists(f, full_path)
                THEN Fails("File does not exist: " \o file_path)
                ELSE IF IsDir(f, full_path)
                THEN Fails("Path is a directory: " \o file_path)
                ELSE Answer(f, ResultResponse(request_id,
                                "File: " \o file_path \o "\n\n" \o ReadText(f, full_path)),
                            log \o <<"read">>)
          [] operation = "write" ->
                IF ~Exists(f, full_path)
                THEN Fails("File does not exist: " \o file_path)
                ELSE IF ~CanWriteText(f, full_path)
                THEN Fails("File operation failed: open " \o Str(full_path))
                ELSE Answer(WriteText(f, full_path, content),
                            ResultResponse(request_id,
                                "Successfully wrote " \o ToString(Len(content))
                                \o " characters to " \o file_path),
                            log \o <<"write">>)
          [] operation = "create" ->
                IF Exists(f, full_path)
                THEN Fails("File already exists: " \o file_path)
                ELSE IF ~CanMkdirParents(f, Parent(full_path))
                THEN Fails("File operation failed: mkdir " \o Str(Parent(full_path)))
                ELSE Answer(WriteText(MkdirParents(f, Parent(full_path)), full_path,
                                      content),
                            ResultResponse(request_id,
                                "Successfully created " \o file_path \o " with "
                                \o ToString(Len(content)) \o " characters"),
                            log \o <<"mkdir", "write">>)
          [] operation = "delete" ->
                IF ~Exists(f, full_path)
                THEN Fails("File does not exist: " \o file_path)
                ELSE IF IsDir(f, full_path)
                THEN Fails("Cannot delete directory: " \o file_path)
                ELSE Answer(Without(f, {full_path}),
                            ResultResponse(request_id,
                                "Successfully deleted " \o file_path),
                            log \o <<"unlink">>)
          [] operation = "list" ->
                LET target_path == IF file_path # "." THEN full_path ELSE base_dir
                IN  IF ~Exists(f, target_path)
                    THEN Fails("Directory does not exist: " \o file_path)
                    ELSE IF IsFile(f, target_path)
                    THEN Fails("Path is a file: " \o file_path)
                    ELSE IF Children(f, target_path) # {}
                            /\ ~IsRelativeTo(target_path, base_dir)
                    THEN Fails("File operation failed: relative_to")
                    ELSE Answer(f, ResultResponse(request_id,
                                    "Contents of allowed/" \o file_path \o ":\n"
                                    \o Join(ListingLines(f,
                                           SortedPaths(Children(f, target_path))), "\n")),
                                log \o <<"iterdir">>)
          [] OTHER ->
                Answer(f, error_response(request_id, -32602,
                                         "Unknown operation: " \o operation), log)

execute_file_operation(f, request_id, arguments) ==
    LET operation == Get(arguments, "operation", PyNone)
        file_path == Get(arguments, "file_path", "")
        content   == Get(arguments, "content", "")
        Invalid(message, log) ==
            Answer(f, error_response(request_id, -32602, message), log)
        validated == MCPFileServer_validate_path(file_path)
    IN  IF operation \in {PyNone, ""} \/ file_path = ""
        THEN Invalid("Operation and file_path are required", <<>>)
        ELSE IF ~validated.ok
        THEN Invalid("Invalid path: Path outside allowed directory", <<>>)
        ELSE IF operation \in {"create", "write"}
                /\ ~MCPFileServer_validate_file_extension(file_path)
        THEN Invalid("File extension not allowed", <<"path">>)
        ELSE IF operation \in {"create", "write"} /\ content # ""
                /\ ~MCPFileServer_validate_file_size(content)
        THEN Invalid("File size exceeds limit", <<"path", "ext">>)
        ELSE operation_branch(f, request_id, operation, file_path, validated.path,
                 content,
                 IF operation \in {"create", "write"} THEN <<"path", "ext", "size">>
                 ELSE <<"path">>)

handle_mcp_request(f, request_data) ==
    LET method     == Get(request_data, "method", PyNone)
        request_id == Get(request_data, "id", "null")
    IN  CASE method = "initialize" ->
                Answer(f, [jsonrpc |-> "2.0", id |-> request_id,
                           result |-> [protocolVersion |-> "2024-11-05",
                                       serverInfo |-> [name |-> "local-file-mcp-server",
                                                       version |-> "1.0.0"]]],
                       <<"initialize">>)
          [] method = "tools/list" ->
                Answer(f, [jsonrpc |-> "2.0", id |-> request_id,
                           result |-> [tools |-> <<[name |-> "local_file_mcp_server"]>>]],
                       <<"tools/list">>)
          [] method = "tools/call" ->
                LET params    == Get(request_data, "params", <<>>)
                    tool_name == Get(params, "name", PyNone)
                    arguments == Get(params, "arguments", <<>>)
                    r == IF tool_name = "local_file_mcp_server"
                         THEN execute_file_operation(f, request_id, arguments)
                         ELSE Answer(f, error_response(request_id, -32602,
                                         "Unknown tool: " \o tool_name), <<>>)
                IN  [r EXCEPT !.log = <<"tools/call">> \o @]
          [] OTHER ->
                Answer(f, error_response(request_id, -32601,
                                         "Method not found: " \o method), <<>>)

\* The request body: text that is no JSON, JSON that is no object, or an
\* object (json.loads)
MalformedBody == [malformed |-> TRUE]

NonObjectBody == [nonobject |-> TRUE]

\* MCPFileServer.__init__ runs for every request and creates the base
\* directory when it is missing (CREATE_ALLOWED_DIR); do_POST follows
do_POST(f0, headers, body) ==
    LET f == IF CanMkdirParents(f0, base_dir) THEN MkdirParents(f0, base_dir) ELSE f0
        request_id == Get(body, "id", "null")
        api_key == IF Get(headers, "X-API-Key", "") # ""
                   THEN headers["X-API-Key"]
                   ELSE Replace(Get(headers, "Authorization", ""), "Bearer ", "", -1)
        checked == MCPFileServer_validate_api_key(api_key)
    IN  IF body = MalformedBody
        THEN Answer(f, error_response("null", -32700, "Parse error"), <<>>)
        ELSE IF body = NonObjectBody
        THEN Answer(f, error_response("null", -32000, "Internal error"), <<>>)
        ELSE IF checked.raised
        THEN Answer(f, error_response(request_id, -32000, "Internal error"), <<>>)
        ELSE IF ~checked.valid
        THEN Answer(f, error_response(request_id, -32001, "Invalid API key"), <<>>)
        ELSE LET r == handle_mcp_request(f, body)
             IN  [r EXCEPT !.log = <<"api_key">> \o @]

(***************************************************************************)
(* The state machine: one action per tool of fastmcp_server.py and one for *)
(* a POST to server.py.  Each action serves one call, with the token and   *)
(* the arguments a specification draws for it.                             *)
(*                                                                         *)
(* Records list their fields in the order TLC keeps them (the order in     *)
(* which the field names first occur in this module), so that no worker    *)
(* of TLC reorders a record while another one reads it.                    *)
(***************************************************************************)
InitialFs ==
    (<<>> :> Dir)
    @@ (<<"allowed">> :> Dir)
    @@ (<<"allowed", "a.txt">> :> File("one\ntwo"))
    @@ (<<"allowed", "d">> :> Dir)
    @@ (<<"allowed", "d", "n.md">> :> File("# t\n"))
    @@ (<<"allowed2">> :> Dir)
    @@ (<<"allowed2", "x.txt">> :> File("secret"))

NoCall == [server |-> "none"]

\* The server processes that serve one sandbox (every MCP client on the
\* stdio transport starts its own) and what each has in flight: nothing, or
\* a call that has read the file and computed the text it will write, or a
\* call that has opened the file for writing
Procs == {"p1", "p2"}

NoneRunning == [p \in Procs |-> [pc |-> "idle"]]

Init ==
    /\ fs = InitialFs
    /\ last = NoCall
    /\ calls = 0
    /\ ALLOWED_EXTENSIONS \in ExtensionSettings
    /\ running = NoneRunning

\* One tool call of fastmcp_server.py: r is what the tool yields on fs
Serve(tool, token, args, r) ==
    /\ fs' = r.fs
    /\ last' = [log |-> r.log, ok |-> r.ok, err |-> r.err, out |-> r.out,
                missing |-> r.missing, paths |-> r.paths, token |-> token,
                server |-> "fastmcp", tool |-> tool, args |-> args,
                before |-> fs]
    /\ calls' = calls + 1
    /\ UNCHANGED <<ALLOWED_EXTENSIONS, running>>

CreateFile(token, a) ==
    /\ calls < MaxCalls
    /\ Serve("create_file", token, a,
             create_file(fs, token, a.file_path, a.content))

ReadFile(token, a) ==
    /\ calls < MaxCalls
    /\ Serve("read_file", token, a, read_file(fs, token, a.file_path))

WriteFile(token, a) ==
    /\ calls < MaxCalls
    /\ Serve("write_file", token, a,
             write_file(fs, token, a.file_path, a.content))

DeleteFile(token, a) ==
    /\ calls < MaxCalls
    /\ Serve("delete_file", token, a, delete_file(fs, token, a.file_path))

ListFiles(token, a) ==
    /\ calls < MaxCalls
    /\ Serve("list_files", token, a, list_files(fs, token, a.directory_path))

ReadLines(token, a) ==
    /\ calls < MaxCalls
    /\ Serve("read_lines", token, a,
             read_lines(fs, token, a.file_path, a.start_line, a.end_line))

WriteLines(token, a) ==
    /\ calls < MaxCalls
    /\ Serve("write_lines", token, a,
             write_lines(fs, token, a.file_path, a.lines_array, a.start_line))

InsertLines(token, a) ==
    /\ calls < MaxCalls
    /\ Serve("insert_lines", token, a,
             insert_lines(fs, token, a.file_path, a.content, a.line_number))

DeleteLines(token, a) ==
    /\ calls < MaxCalls
    /\ Serve("delete_lines", token, a,
             delete_lines(fs, token, a.file_path, a.start_line, a.end_line))

AppendLines(token, a) ==
    /\ calls < MaxCalls
    /\ Serve("append_lines", token, a,
             append_lines(fs, token, a.file_path, a.content))

SearchInFile(token, a) ==
    /\ calls < MaxCalls
    /\ Serve("search_in_file", token, a,
             search_in_file(fs, token, a.file_path, a.pattern, a.regex))

ReplaceInFile(token, a) ==
    /\ calls < MaxCalls
    /\ Serve("replace_in_file", token, a,
             replace_in_file(fs, token, a.file_path, a.search, a.replace, a.all))

FindAndReplaceLines(token, a) ==
    /\ calls < MaxCalls
    /\ Serve("find_and_replace_lines", token, a,
             find_and_replace_lines(fs, token, a.file_path, a.line_pattern,
                                    a.replacement))

CopyFile(token, a) ==
    /\ calls < MaxCalls
    /\ Serve("copy_file", token, a,
             copy_file(fs, token, a.source_path, a.dest_path))

MoveFile(token, a) ==
    /\ calls < MaxCalls
    /\ Serve("move_file", token, a,
             move_file(fs, token, a.source_path, a.dest_path))

GetFileInfo(token, a) ==
    /\ calls < MaxCalls
    /\ Serve("get_file_info", token, a, get_file_info(fs, token, a.file_path))

FileExists(token, a) ==
    /\ calls < MaxCalls
    /\ Serve("file_exists", token, a, file_exists(fs, token, a.file_path))

CreateDirectory(token, a) ==
    /\ calls < MaxCalls
    /\ Serve("create_directory", token, a,
             create_directory(fs, token, a.dir_path))

DeleteDirectory(token, a) ==
    /\ calls < MaxCalls
    /\ Serve("delete_directory", token, a,
             delete_directory(fs, token, a.dir_path, a.recursive))

ListFilesRecursive(token, a) ==
    /\ calls < MaxCalls
    /\ Serve("list_files_recursive", token, a,
             list_files_recursive(fs, token, a.dir_path, a.pattern))

MoveDirectory(token, a) ==
    /\ calls < MaxCalls
    /\ Serve("move_directory", token, a,
             move_directory(fs, token, a.source_path, a.dest_path))

\* One POST to server.py
DoPost(headers, body) ==
    LET r == do_POST(fs, headers, body)
    IN  /\ calls < MaxCalls
        /\ fs' = r.fs
        /\ last' = [log |-> r.log, response |-> r.response,
                    headers |-> headers, body |-> body, server |-> "http",
                    before |-> fs]
        /\ calls' = calls + 1
        /\ UNCHANGED <<ALLOWED_EXTENSIONS, running>>

(***************************************************************************)
(* The requests the model serves.                                          *)
(***************************************************************************)
\* 18 ASCII characters and one two-byte character: MAX_FILE_SIZE bytes
AtLimit == "0123456789abcdefgh" \o EAcute

\* MAX_FILE_SIZE characters, one byte more than MAX_FILE_SIZE
OverLimit == "0123456789abcdefghi" \o EAcute

FileArgs(Paths) == {[file_path |-> p] : p \in Paths}

ContentArgs(Paths, Contents) ==
    {[content |-> c, file_path |-> p] : p \in Paths, c \in Contents}

RangeArgs(Paths, Starts, Ends) ==
    {[file_path |-> p, start_line |-> s, end_line |-> e] :
        p \in Paths, s \in Starts, e \in Ends}

WriteLinesArgs(Paths, Arrays, Starts) ==
    {[file_path |-> p, start_line |-> s, lines_array |-> l] :
        p \in Paths, l \in Arrays, s \in Starts}

InsertArgs(Paths, Contents, Numbers) ==
    {[content |-> c, file_path |-> p, line_number |-> n] :
        p \in Paths, c \in Contents, n \in Numbers}

SearchArgs(Paths, Patterns, Modes) ==
    {[file_path |-> p, pattern |-> t, regex |-> m] :
        p \in Paths, t \in Patterns, m \in Modes}

ReplaceArgs(Paths, Searches, Replacements, Modes) ==
    {[file_path |-> p, search |-> s, replace |-> r, all |-> m] :
        p \in Paths, s \in Searches, r \in Replacements, m \in Modes}

LineReplaceArgs(Paths, Patterns, Replacements) ==
    {[file_path |-> p, line_pattern |-> t, replacement |-> r] :
        p \in Paths, t \in Patterns, r \in Replacements}

TwoPathArgs(Sources, Dests) ==
    {[source_path |-> s, dest_path |-> d] : s \in Sources, d \in Dests}

DirArgs(Paths) == {[dir_path |-> p] : p \in Paths}

ListArgs(Paths) == {[directory_path |-> p] : p \in Paths}

RmdirArgs(Paths, Modes) ==
    {[dir_path |-> p, recursive |-> m] : p \in Paths, m \in Modes}

GlobArgs(Paths, Patterns) ==
    {[pattern |-> t, dir_path |-> p] : p \in Paths, t \in Patterns}

\* a tools/call request for the single tool of server.py
ToolCall(id, arguments) ==
    [jsonrpc |-> "2.0", id |-> id, method |-> "tools/call",
     params |-> [name |-> "local_file_mcp_server", arguments |-> arguments]]

(***************************************************************************)
(* Spec: every tool under every token, each with well-formed arguments,    *)
(* and server.py with and without its key.                                 *)
(***************************************************************************)
Next ==
    \/ \E token \in AccessTokens,
          a \in ContentArgs({"new.txt"}, {"hi"}) :
            CreateFile(token, a)
    \/ \E token \in AccessTokens,
          a \in FileArgs({"a.txt"}) :
            ReadFile(token, a)
    \/ \E token \in AccessTokens,
          a \in ContentArgs({"a.txt"}, {"hi"}) :
            WriteFile(token, a)
    \/ \E token \in AccessTokens,
          a \in FileArgs({"a.txt"}) :
            DeleteFile(token, a)
    \/ \E token \in AccessTokens,
          a \in ListArgs({"."}) :
            ListFiles(token, a)
    \/ \E token \in AccessTokens,
          a \in RangeArgs({"d/n.md"}, {1}, {1}) :
            ReadLines(token, a)
    \/ \E token \in AccessTokens,
          a \in WriteLinesArgs({"d/n.md"}, {<<"x">>}, {1}) :
            WriteLines(token, a)
    \/ \E token \in AccessTokens,
          a \in InsertArgs({"d/n.md"}, {"x"}, {1}) :
            InsertLines(token, a)
    \/ \E token \in AccessTokens,
          a \in RangeArgs({"d/n.md"}, {1}, {1}) :
            DeleteLines(token, a)
    \/ \E token \in AccessTokens,
          a \in ContentArgs({"d/n.md"}, {"x"}) :
            AppendLines(token, a)
    \/ \E token \in AccessTokens,
          a \in SearchArgs({"d/n.md"}, {"t"}, {FALSE}) :
            SearchInFile(token, a)
    \/ \E token \in AccessTokens,
          a \in ReplaceArgs({"d/n.md"}, {"t"}, {"u"}, {TRUE}) :
            ReplaceInFile(token, a)
    \/ \E token \in AccessTokens,
          a \in LineReplaceArgs({"d/n.md"}, {"t"}, {"u"}) :
            FindAndReplaceLines(token, a)
    \/ \E token \in AccessTokens,
          a \in TwoPathArgs({"d/n.md"}, {"c.md"}) :
            CopyFile(token, a)
    \/ \E token \in AccessTokens,
          a \in TwoPathArgs({"d/n.md"}, {"m.md"}) :
            MoveFile(token, a)
    \/ \E token \in AccessTokens,
          a \in FileArgs({"a.txt"}) :
            GetFileInfo(token, a)
    \/ \E token \in AccessTokens,
          a \in FileArgs({"a.txt"}) :
            FileExists(token, a)
    \/ \E token \in AccessTokens,
          a \in DirArgs({"e"}) :
            CreateDirectory(token, a)
    \/ \E token \in AccessTokens,
          a \in RmdirArgs({"d"}, {TRUE}) :
            DeleteDirectory(token, a)
    \/ \E token \in AccessTokens,
          a \in GlobArgs({"."}, {""}) :
            ListFilesRecursive(token, a)
    \/ \E token \in AccessTokens,
          a \in TwoPathArgs({"d"}, {"g"}) :
            MoveDirectory(token, a)
    \/ \E headers \in {("X-API-Key" :> "key1"), <<>>},
          body \in {[jsonrpc |-> "2.0", id |-> "3", method |-> "tools/list"],
                    ToolCall("8", [file_path |-> "a.txt",
                                   operation |-> "delete"])} :
            DoPost(headers, body)

Spec == Init /\ [][Next]_vars

(***************************************************************************)
(* SpecFiles: the whole-file tools without authentication, over paths of   *)
(* every shape and contents at and around the size limit.                  *)
(***************************************************************************)
\* paths of files: present, absent, below a missing directory, with a
\* disallowed or upper-case extension, below a regular file, in the sibling
\* directory /allowed2, and above the sandbox
FilePaths ==
    {"a.txt", "/new.txt", "sub/b.md", "a.exe", "A.TXT", "a.txt/c.txt",
     "../allowed2/x.txt", "../../etc/passwd"}

FileContents == {"", "hi\r\nyo", AtLimit, OverLimit}

NextFiles ==
    \/ \E token \in {None},
          a \in ContentArgs(FilePaths
                \cup {"d"}, FileContents) :
            CreateFile(token, a)
    \/ \E token \in {None},
          a \in FileArgs(FilePaths
                \cup {"d"}) :
            ReadFile(token, a)
    \/ \E token \in {None},
          a \in ContentArgs(FilePaths, FileContents) :
            WriteFile(token, a)
    \/ \E token \in {None},
          a \in FileArgs(FilePaths
                \cup {"d"}) :
            DeleteFile(token, a)

SpecFiles == Init /\ [][NextFiles]_vars

(***************************************************************************)
(* SpecOrder: the mutating tools and the mutating operations of server.py, *)
(* each with arguments that pass every check and arguments that fail one   *)
(* of them, under the allow-list ".txt,.md".                               *)
(***************************************************************************)
InitRestricted == Init /\ ALLOWED_EXTENSIONS = <<".txt", ".md">>

Escaping == "../../etc/passwd"

NextOrder ==
    \/ \E token \in {None},
          a \in ContentArgs({"new.txt", Escaping, "a.exe"}, {"hi"})
                \cup ContentArgs({"big.txt"}, {OverLimit}) :
            CreateFile(token, a)
    \/ \E token \in {tokens.MCP_READ_KEY},
          a \in ContentArgs({"new.txt"}, {"hi"}) :
            CreateFile(token, a)
    \/ \E token \in {None, tokens.MCP_READ_KEY},
          a \in ContentArgs({"a.txt"}, {"hi", OverLimit}) :
            WriteFile(token, a)
    \/ \E token \in {None, tokens.MCP_WRITE_KEY},
          a \in FileArgs({"a.txt", Escaping}) :
            DeleteFile(token, a)
    \/ \E token \in {None, tokens.MCP_READ_KEY},
          a \in WriteLinesArgs({"a.txt"}, {<<"x">>, <<AtLimit, "x">>}, {1}) :
            WriteLines(token, a)
    \/ \E token \in {None, tokens.MCP_READ_KEY},
          a \in InsertArgs({"a.txt"}, {"x", OverLimit}, {1}) :
            InsertLines(token, a)
    \/ \E token \in {None, tokens.MCP_READ_KEY},
          a \in RangeArgs({"a.txt", "a.exe"}, {1}, {1}) :
            DeleteLines(token, a)
    \/ \E token \in {None, tokens.MCP_READ_KEY},
          a \in ContentArgs({"a.txt"}, {"x", AtLimit}) :
            AppendLines(token, a)
    \/ \E token \in {None, tokens.MCP_READ_KEY},
          a \in ReplaceArgs({"a.txt"}, {"o"}, {"0", AtLimit}, {TRUE}) :
            ReplaceInFile(token, a)
    \/ \E token \in {None, tokens.MCP_READ_KEY},
          a \in LineReplaceArgs({"a.txt"}, {"t"}, {"u", OverLimit}) :
            FindAndReplaceLines(token, a)
    \/ \E token \in {None},
          a \in TwoPathArgs({"a.txt"}, {"c.txt", "c.exe", Escaping})
                \cup TwoPathArgs({Escaping}, {"c.txt"}) :
            CopyFile(token, a)
    \/ \E token \in {tokens.MCP_READ_KEY},
          a \in TwoPathArgs({"a.txt"}, {"c.txt"}) :
            CopyFile(token, a)
    \/ \E token \in {None, tokens.MCP_READ_KEY},
          a \in TwoPathArgs({"a.txt"}, {"sub/m.txt", "m.exe"}) :
            MoveFile(token, a)
    \/ \E token \in {None, tokens.MCP_READ_KEY},
          a \in DirArgs({"e/f", "../../etc/e"}) :
            CreateDirectory(token, a)
    \/ \E token \in {None, tokens.MCP_WRITE_KEY},
          a \in RmdirArgs({"d", "../../etc"}, {TRUE}) :
            DeleteDirectory(token, a)
    \/ \E token \in {None, tokens.MCP_READ_KEY},
          a \in TwoPathArgs({"d"}, {"g/h", "../../etc/g"}) :
            MoveDirectory(token, a)
    \/ \E headers \in {("X-API-Key" :> "key1"), ("X-API-Key" :> "bad")},
          body \in {ToolCall("7", [content |-> "hi", file_path |-> p,
                                         operation |-> "create"]) :
                        p \in {"new.txt", "a.exe", Escaping}}
                \cup {ToolCall("7", [content |-> c, file_path |-> "a.txt",
                                     operation |-> op]) :
                        op \in {"create", "write"}, c \in {"hi", OverLimit}}
                \cup {ToolCall("8", [file_path |-> p, operation |-> "delete"]) :
                        p \in {"a.txt", Escaping}} :
            DoPost(headers, body)

SpecOrder == InitRestricted /\ [][NextOrder]_vars

(***************************************************************************)
(* SpecHttp: POSTs to server.py, with every way of presenting a key and    *)
(* every method and operation.                                             *)
(***************************************************************************)
\* the headers of a POST: the key in X-API-Key, a wrong key, no key, the key
\* as a bearer credential, "Bearer " inside the credential, and a key with a
\* non-ASCII character
HeaderSets ==
    {("X-API-Key" :> "key1"), ("X-API-Key" :> "bad"), <<>>,
     ("Authorization" :> "Bearer key1"), ("Authorization" :> "keBearer y1"),
     ("X-API-Key" :> ("k" \o EAcute))}

Bodies ==
    {MalformedBody, NonObjectBody,
     [jsonrpc |-> "2.0", id |-> "1", method |-> "initialize"],
     [jsonrpc |-> "2.0", id |-> "3", method |-> "tools/list"],
     [jsonrpc |-> "2.0", id |-> "4", method |-> "resources/list"],
     [jsonrpc |-> "2.0", method |-> "tools/call",
      params |-> [name |-> "other_tool"]],
     ToolCall("5", [operation |-> "read"]),
     ToolCall("6", [file_path |-> "a.txt", operation |-> "chmod"])}
    \cup {ToolCall("7", [content |-> content, file_path |-> file_path,
                         operation |-> op]) :
            op \in {"create", "write"},
            file_path \in {"a.txt", "sub/b.md", "../allowed2/x.txt"},
            content \in {"hi\r\nyo", OverLimit}}
    \cup {ToolCall("8", [file_path |-> file_path, operation |-> op]) :
            op \in {"read", "delete", "list"}, file_path \in {"a.txt", "."}}

NextHttp ==
    \E headers \in HeaderSets, body \in Bodies : DoPost(headers, body)

SpecHttp == Init /\ [][NextHttp]_vars

(***************************************************************************)
(* SpecSize: the tools that write, copy or move content, without           *)
(* authentication, with contents that bring a file to the size limit and   *)
(* one byte above it while staying within the limit in characters.         *)
(***************************************************************************)
\* a text of the given number of characters, the last of two bytes
Filler(chars) == SubSeq("0123456789abcdefghij", 1, chars - 1) \o EAcute

NextSize ==
    \/ \E token \in {None},
          a \in ContentArgs({"new.txt"}, {"hi", AtLimit, OverLimit}) :
            CreateFile(token, a)
    \/ \E token \in {None},
          a \in ContentArgs({"a.txt"}, {"", AtLimit, OverLimit}) :
            WriteFile(token, a)
    \/ \E token \in {None},
          a \in WriteLinesArgs({"a.txt"},
                   {<<"x">>, <<"0123456789", Filler(8)>>,
                    <<"0123456789", Filler(9)>>},
                   {1, 2}) :
            WriteLines(token, a)
    \/ \E token \in {None},
          a \in InsertArgs({"a.txt"}, {"x", Filler(11), Filler(12)}, {1}) :
            InsertLines(token, a)
    \/ \E token \in {None},
          a \in RangeArgs({"a.txt"}, {1}, {1}) :
            DeleteLines(token, a)
    \/ \E token \in {None},
          a \in ContentArgs({"a.txt"}, {"x", Filler(11), Filler(12)}) :
            AppendLines(token, a)
    \/ \E token \in {None},
          a \in ReplaceArgs({"a.txt"}, {"w"}, {"v", Filler(13), Filler(14)}, {TRUE}) :
            ReplaceInFile(token, a)
    \/ \E token \in {None},
          a \in LineReplaceArgs({"a.txt"}, {"two"}, {"2", Filler(15), Filler(16)}) :
            FindAndReplaceLines(token, a)
    \/ \E token \in {None},
          a \in TwoPathArgs({"a.txt", "../allowed2/x.txt"}, {"c.txt"}) :
            CopyFile(token, a)
    \/ \E token \in {None},
          a \in TwoPathArgs({"a.txt", "c.txt"}, {"a.txt", "m.txt"}) :
            MoveFile(token, a)

SpecSize == InitRestricted /\ [][NextSize]_vars

(***************************************************************************)
(* SpecLines: the line tools, without authentication, on a file whose      *)
(* content is one of several texts: with and without a final line end,     *)
(* with an empty line in the middle or at the end, with "\r\n" line ends,  *)
(* and with no line at all.                                                *)
(***************************************************************************)
LineContents ==
    {"line1\nline2\nline3", "one\ntwo\n", "a\n\nb", "p\r\nq", "k\n\n", "",
     "# title\nbody\n# sub"}

InitLines ==
    /\ \E c \in LineContents :
          fs = WriteText(InitialFs, base_dir \o <<"a.txt">>, c)
    /\ last = NoCall
    /\ calls = 0
    /\ ALLOWED_EXTENSIONS = <<".txt", ".md">>
    /\ running = NoneRunning

LinePaths == {"a.txt", "none.txt", "../allowed2/x.txt"}

NextLines ==
    \/ \E token \in {None},
          a \in RangeArgs({"a.txt"}, 1..3, 1..3) :
            ReadLines(token, a)
    \/ \E token \in {None},
          a \in WriteLinesArgs({"a.txt"}, {<<"X">>, <<"X", "Y">>}, 0..4)
                \cup WriteLinesArgs(LinePaths, {<<"X">>}, {1}) :
            WriteLines(token, a)
    \/ \E token \in {None},
          a \in RangeArgs({"a.txt"}, 0..4, 1..3)
                \cup RangeArgs(LinePaths, {1}, {1}) :
            DeleteLines(token, a)

SpecLines == InitLines /\ [][NextLines]_vars

(***************************************************************************)
(* SpecSearch: search_in_file, literal and as a regular expression, on the *)
(* texts of SpecLines, with write_lines changing the file in between.      *)
(***************************************************************************)
NextSearch ==
    \/ \E token \in {None},
          a \in SearchArgs({"a.txt"}, {"^#", "o", "e$", "^b", "", "(", "line"},
                           BOOLEAN)
                \cup SearchArgs(LinePaths \cup {"d"}, {"o"}, {FALSE}) :
            SearchInFile(token, a)
    \/ \E token \in {None},
          a \in WriteLinesArgs({"a.txt"}, {<<"# one", "two">>}, {1, 2}) :
            WriteLines(token, a)

SpecSearch == InitLines /\ [][NextSearch]_vars

(***************************************************************************)
(* SpecMove: move_file and copy_file between present and absent paths,     *)
(* into directories that exist and that do not, and read_file of the paths *)
(* they name, without authentication, under the allow-list ".txt,.md".     *)
(***************************************************************************)
NextMove ==
    \/ \E token \in {None},
          a \in TwoPathArgs({"a.txt", "none.txt", "d", "d/n.md", "../allowed2/x.txt"},
                            {"m.txt", "new/sub/m.txt", "d/n.md", "m.exe",
                             "a.txt/x.txt", "../allowed2/y.txt"}) :
            MoveFile(token, a)
    \/ \E token \in {None},
          a \in TwoPathArgs({"a.txt", "d/n.md"}, {"a.txt", "new/c.md"}) :
            CopyFile(token, a)
    \/ \E token \in {None},
          a \in FileArgs({"a.txt", "m.txt", "new/sub/m.txt", "d/n.md",
                          "../allowed2/x.txt"}) :
            ReadFile(token, a)

SpecMove == InitRestricted /\ [][NextMove]_vars

(***************************************************************************)
(* SpecFailing: the tools that change the sandbox, without authentication  *)
(* under the allow-list ".txt,.md", each with arguments on which it fails  *)
(* (absent and present paths, paths below a regular file, a directory      *)
(* moved below itself, contents over the limit, ranges outside the file)   *)
(* and with arguments on which it is served.                               *)
(***************************************************************************)
NextFailing ==
    \/ \E token \in {None},
          a \in ContentArgs({"a.txt", "new.txt", "a.txt/c.txt", "a.exe"}, {"hi"})
                \cup ContentArgs({"new/big.txt"}, {OverLimit}) :
            CreateFile(token, a)
    \/ \E token \in {None},
          a \in ContentArgs({"a.txt", "none.txt"}, {"hi", OverLimit}) :
            WriteFile(token, a)
    \/ \E token \in {None},
          a \in WriteLinesArgs({"a.txt", "none.txt"}, {<<"x">>, <<AtLimit, "x">>},
                               {0, 1}) :
            WriteLines(token, a)
    \/ \E token \in {None},
          a \in InsertArgs({"a.txt", "none.txt"}, {"x", OverLimit}, {0, 1}) :
            InsertLines(token, a)
    \/ \E token \in {None},
          a \in RangeArgs({"a.txt", "none.txt"}, {0, 1, 5}, {1}) :
            DeleteLines(token, a)
    \/ \E token \in {None},
          a \in ContentArgs({"a.txt", "none.txt"}, {"x", AtLimit}) :
            AppendLines(token, a)
    \/ \E token \in {None},
          a \in ReplaceArgs({"a.txt", "none.txt"}, {"o", "zz"}, {"0", AtLimit},
                            {TRUE}) :
            ReplaceInFile(token, a)
    \/ \E token \in {None},
          a \in LineReplaceArgs({"a.txt", "none.txt"}, {"t", "("},
                                {"u", OverLimit}) :
            FindAndReplaceLines(token, a)
    \/ \E token \in {None},
          a \in TwoPathArgs({"a.txt", "none.txt", "d"},
                            {"c.txt", "d/n.md", "new/c.exe", "a.txt/x.txt"}) :
            CopyFile(token, a)
    \/ \E token \in {None},
          a \in TwoPathArgs({"a.txt", "none.txt", "d"},
                            {"m.txt", "d/n.md", "new/m.exe", "a.txt/x.txt"}) :
            MoveFile(token, a)
    \/ \E token \in {None},
          a \in DirArgs({"d", "e/f", "a.txt/e", "a.txt"}) :
            CreateDirectory(token, a)
    \/ \E token \in {None},
          a \in RmdirArgs({"d", "none", "a.txt"}, BOOLEAN) :
            DeleteDirectory(token, a)
    \/ \E token \in {None},
          a \in TwoPathArgs({"d", "none", "a.txt"},
                            {"g/h", "d/c", "d/b/c", "a.txt", "a.txt/g"}) :
            MoveDirectory(token, a)

SpecFailing == InitRestricted /\ [][NextFailing]_vars

(***************************************************************************)
(* SpecList: list_files of the base directory under its several spellings, *)
(* of a directory, a file and an absent path with and without leading "/", *)
(* while files and directories are created and deleted, without            *)
(* authentication.                                                         *)
(***************************************************************************)
NextList ==
    \/ \E token \in {None},
          a \in ListArgs({".", "/", "/.", "d", "/d", "//d", "a.txt", "/a.txt",
                          "/none", "../allowed2", "/../allowed2"}) :
            ListFiles(token, a)
    \/ \E token \in {None},
          a \in ContentArgs({"Z.txt", "/b.txt", "c/e.md"}, {"hi"}) :
            CreateFile(token, a)
    \/ \E token \in {None},
          a \in DirArgs({"a", "/d/e"}) :
            CreateDirectory(token, a)
    \/ \E token \in {None},
          a \in FileArgs({"a.txt", "/d/n.md"}) :
            DeleteFile(token, a)

SpecList == Init /\ [][NextList]_vars

(***************************************************************************)
(* SpecEdits: insert_lines, append_lines and replace_in_file, without      *)
(* authentication, on the texts of SpecLines.                              *)
(***************************************************************************)
NextEdits ==
    \/ \E token \in {None},
          a \in InsertArgs({"a.txt"}, {"X", "X\nY"}, 0..4)
                \cup InsertArgs(LinePaths, {"X"}, {1}) :
            InsertLines(token, a)
    \/ \E token \in {None},
          a \in ContentArgs({"a.txt"}, {"X", "X\n", "", "\n"})
                \cup ContentArgs(LinePaths, {"X"}) :
            AppendLines(token, a)
    \/ \E token \in {None},
          a \in ReplaceArgs({"a.txt"}, {"o", "line", "\n", "zz", ""}, {"0", ""},
                            BOOLEAN)
                \cup ReplaceArgs(LinePaths, {"o"}, {"0"}, {TRUE}) :
            ReplaceInFile(token, a)

SpecEdits == InitLines /\ [][NextEdits]_vars

(***************************************************************************)
(* SpecDirs: delete_directory, recursive and not, create_directory and     *)
(* move_directory on directories with and without entries, on a file, on   *)
(* absent paths and on the base directory under its spellings ".", "" and  *)
(* "/", without authentication.                                            *)
(***************************************************************************)
NextDirs ==
    \/ \E token \in {None},
          a \in RmdirArgs({"d", "e", "none", "a.txt", ".", "", "/", "../allowed2"},
                          BOOLEAN) :
            DeleteDirectory(token, a)
    \/ \E token \in {None},
          a \in DirArgs({"e", "d/e/f"}) :
            CreateDirectory(token, a)
    \/ \E token \in {None},
          a \in TwoPathArgs({"d", ".", "", "/"}, {"g", "d/g", "../allowed3"}) :
            MoveDirectory(token, a)

SpecDirs == Init /\ [][NextDirs]_vars

(***************************************************************************)
(* SpecRace: append_lines and insert_lines served by two server processes  *)
(* on one sandbox, without authentication, on the texts of SpecLines.       *)
(* Neither tool takes a lock, so the steps of a call (read_text and the     *)
(* computation of the new text, then, inside Path.write_text, open(path,    *)
(* "w") which truncates the file, then the write of the text at offset 0    *)
(* when the buffer is flushed on close) interleave with the steps of the    *)
(* other process's call.                                                    *)
(***************************************************************************)

\* The call has passed validation, read the file and computed new_content;
\* a call that fails returns at once, as in Serve
Begin(p, tool, token, a, r) ==
    /\ calls < MaxCalls
    /\ running[p].pc = "idle"
    /\ calls' = calls + 1
    /\ IF "write" \in Range(r.log)
       THEN /\ running' = [running EXCEPT ![p] =
                    [call |-> [out |-> r.out, tool |-> tool, args |-> a],
                     pc |-> "computed",
                     target |-> validated_path(a.file_path),
                     pending |-> r.fs[validated_path(a.file_path)].data]]
            /\ UNCHANGED <<fs, last, ALLOWED_EXTENSIONS>>
       ELSE /\ last' = [log |-> r.log, ok |-> r.ok, err |-> r.err, out |-> r.out,
                        missing |-> r.missing, paths |-> r.paths, token |-> token,
                        server |-> "fastmcp", tool |-> tool, args |-> a,
                        before |-> fs]
            /\ UNCHANGED <<fs, ALLOWED_EXTENSIONS, running>>

BeginAppendLines(p, token, a) ==
    Begin(p, "append_lines", token, a,
          append_lines(fs, token, a.file_path, a.content))

BeginInsertLines(p, token, a) ==
    Begin(p, "insert_lines", token, a,
          insert_lines(fs, token, a.file_path, a.content, a.line_number))

\* Path.write_text, first half: open(path, "w") creates or truncates the file
OpenForWriting(p) ==
    /\ running[p].pc = "computed"
    /\ CanWriteText(fs, running[p].target)
    /\ fs' = WriteText(fs, running[p].target, "")
    /\ running' = [running EXCEPT ![p].pc = "opened"]
    /\ UNCHANGED <<last, calls, ALLOWED_EXTENSIONS>>

\* What a file that holds held contains after data is written at offset 0
Overlay(held, data) ==
    IF Len(held) > Len(data)
    THEN data \o SubSeq(held, Len(data) + 1, Len(held))
    ELSE data

\* Path.write_text, second half: the text is written at offset 0 of the open
\* file and the file is closed; the tool returns its message
WriteAndClose(p) ==
    /\ running[p].pc = "opened"
    /\ fs' = WriteText(fs, running[p].target,
                       Overlay(fs[running[p].target].data, running[p].pending))
    /\ last' = [out |-> running[p].call.out, server |-> "race",
                tool |-> running[p].call.tool, args |-> running[p].call.args,
                before |-> fs, target |-> running[p].target,
                pending |-> running[p].pending, writer |-> p]
    /\ running' = [running EXCEPT ![p] = [pc |-> "idle"]]
    /\ UNCHANGED <<calls, ALLOWED_EXTENSIONS>>

NextRace ==
    \/ \E p \in Procs, token \in {None},
          a \in ContentArgs({"a.txt"}, {"X", "longer line"})
                \cup ContentArgs(LinePaths, {"X"}) :
            BeginAppendLines(p, token, a)
    \/ \E p \in Procs, token \in {None},
          a \in InsertArgs({"a.txt"}, {"Y"}, 0..2) :
            BeginInsertLines(p, token, a)
    \/ \E p \in Procs : OpenForWriting(p)
    \/ \E p \in Procs : WriteAndClose(p)

SpecRace == InitLines /\ [][NextRace]_vars

(***************************************************************************)
(* SpecExt: the tools that create, write, copy, move and delete, without   *)
(* authentication, under the allow-list .txt, .md, on raw paths whose last  *)
(* component differs from the name the path resolves to.  The sandbox holds *)
(* only .txt and .md files; the sibling directory, which is not part of it, *)
(* may hold a file of another kind.                                         *)
(***************************************************************************)
InitExt ==
    /\ fs \in {InitialFs, WriteText(InitialFs, <<"allowed2", "k.exe">>, "bin")}
    /\ last = NoCall
    /\ calls = 0
    /\ ALLOWED_EXTENSIONS = <<".txt", ".md">>
    /\ running = NoneRunning

NextExt ==
    \/ \E token \in {None},
          a \in ContentArgs({"b.txt", "b.exe", "B.TXT", "b.exe/../c.md",
                             "c.txt/../b.exe", "d/..", "e.exe/b.txt", "noext",
                             "b.txt/"}, {"hi"}) :
            CreateFile(token, a)
    \/ \E token \in {None},
          a \in ContentArgs({"a.txt", "a.exe", "d/../a.txt"}, {"w"}) :
            WriteFile(token, a)
    \/ \E token \in {None},
          a \in ContentArgs({"a.txt", "a.exe"}, {"x"}) :
            AppendLines(token, a)
    \/ \E token \in {None},
          a \in TwoPathArgs({"a.txt", "../allowed2/k.exe"},
                            {"c.txt", "c.exe", "d", "c.exe/.."}) :
            CopyFile(token, a)
    \/ \E token \in {None},
          a \in TwoPathArgs({"a.txt", "../allowed2/k.exe"},
                            {"m.txt", "m.exe", "d", "e.exe/m.md"}) :
            MoveFile(token, a)
    \/ \E token \in {None}, a \in DirArgs({"e.exe", "g.txt"}) :
            CreateDirectory(token, a)
    \/ \E token \in {None},
          a \in TwoPathArgs({"d", "../allowed2", "e.exe"}, {"g", "h.exe"}) :
            MoveDirectory(token, a)
    \/ \E token \in {None}, a \in FileArgs({"a.txt", "m.txt"}) :
            DeleteFile(token, a)
    \/ \E token \in {None}, a \in RmdirArgs({"d", "e.exe"}, BOOLEAN) :
            DeleteDirectory(token, a)

SpecExt == InitExt /\ [][NextExt]_vars

(***************************************************************************)
(* Properties.                                                             *)
(***************************************************************************)
\* the resolved location a client-supplied path names
Resolved(raw) == Resolve(base_dir \o PathParts(LStrip(raw, "/")))

\* the entries of f outside the sandbox
Outside(f) == {p \in DOMAIN f : ~IsRelativeTo(p, base_dir)}

\* the part of the filesystem outside the sandbox is as the call found it
OutsideUntouched ==
    /\ Outside(fs) = Outside(last.before)
    /\ \A p \in Outside(fs) : fs[p] = last.before[p]

\* C1: every path a tool receives from path validation is the base
\* directory or a descendant of it, no call reads a file outside the base
\* directory, and no call changes anything outside the base directory.
C1_PathConfinement ==
    last.server = "fastmcp" =>
        /\ \A i \in DOMAIN last.paths : IsRelativeTo(last.paths[i], base_dir)
        /\ OutsideUntouched

\* C2: a call whose path resolves into the sibling directory /allowed2,
\* whose name starts with the base directory's name, is rejected with the
\* path-escape error.
C2_SiblingRejected ==
    (/\ last.server = "fastmcp"
     /\ "file_path" \in DOMAIN last.args
     /\ IsRelativeTo(Resolved(last.args.file_path), <<"allowed2">>))
        => (~last.ok /\ last.err = "PathOutside")

\* the scopes each tool's @requires_scopes decorator names
RequiredScopes ==
    [create_file |-> {"write:files"}, read_file |-> {"read:files"},
     write_file |-> {"write:files"}, delete_file |-> {"delete:files"},
     list_files |-> {"read:files"}, read_lines |-> {"read:files"},
     write_lines |-> {"write:files"}, insert_lines |-> {"write:files"},
     delete_lines |-> {"write:files"}, append_lines |-> {"write:files"},
     search_in_file |-> {"read:files"}, replace_in_file |-> {"write:files"},
     find_and_replace_lines |-> {"write:files"}, copy_file |-> {"write:files"},
     move_file |-> {"write:files"}, get_file_info |-> {"read:files"},
     file_exists |-> {"read:files"}, create_directory |-> {"write:files"},
     delete_directory |-> {"delete:files"},
     list_files_recursive |-> {"read:files"}, move_directory |-> {"write:files"}]

\* the call was rejected by the scope check
ScopeRejected == ~last.ok /\ last.err = "InsufficientPermissions"

\* C3: a tool call is rejected by the scope check exactly when a token is
\* present and the tool's required scopes are not a subset of the token's;
\* without a token no call is rejected; a rejected call names the missing
\* scopes, runs nothing further and leaves the filesystem as it found it.
C3_ScopeCheck ==
    last.server = "fastmcp" =>
        LET required == RequiredScopes[last.tool]
        IN  /\ ScopeRejected <=>
                (last.token # None /\ ~(required \subseteq last.token.scopes))
            /\ last.token = None => ~ScopeRejected
            /\ ScopeRejected =>
                /\ last.missing = required \ last.token.scopes
                /\ last.missing # {}
                /\ last.log = <<>>
                /\ fs = last.before

\* create_file under the read key was rejected and created no file
C3_Witness ==
    /\ last.server = "fastmcp"
    /\ last.tool = "create_file"
    /\ last.token = tokens.MCP_READ_KEY
    /\ ScopeRejected
    /\ last.missing = {"write:files"}
    /\ ~Exists(fs, Resolved(last.args.file_path))

ReadOnlyTools ==
    {"read_file", "list_files", "list_files_recursive", "read_lines",
     "search_in_file", "get_file_info", "file_exists"}

DeleteTools == {"delete_file", "delete_directory"}

\* every other tool creates or modifies content
ContentTools == (DOMAIN RequiredScopes \ ReadOnlyTools) \ DeleteTools

\* C4: the read key can invoke exactly the read-only tools, the write key
\* every tool but delete_file and delete_directory, the admin key every
\* tool; a token without the write scope is refused every tool that creates
\* or modifies content and a token without the delete scope is refused
\* delete_file and delete_directory.
C4_KeyTiers ==
    last.server = "fastmcp" =>
        /\ last.token = tokens.MCP_READ_KEY =>
              (ScopeRejected <=> last.tool \notin ReadOnlyTools)
        /\ last.token = tokens.MCP_WRITE_KEY =>
              (ScopeRejected <=> last.tool \in DeleteTools)
        /\ last.token = tokens.MCP_ADMIN_KEY => ~ScopeRejected
        /\ (/\ last.token # None
            /\ last.tool \in ContentTools
            /\ "write:files" \notin last.token.scopes) => ScopeRejected
        /\ (/\ last.token # None
            /\ last.tool \in DeleteTools
            /\ "delete:files" \notin last.token.scopes) => ScopeRejected

\* the write key was refused delete_file after the admin key or no key had
\* been let through by some tool
C4_Witness ==
    /\ last.server = "fastmcp"
    /\ last.tool = "delete_file"
    /\ last.token = tokens.MCP_WRITE_KEY
    /\ ScopeRejected
    /\ Exists(fs, Resolved(last.args.file_path))

\* the entries of a call's record that are checks, and those that are
\* filesystem calls changing the filesystem
CheckEntries == {"api_key", "scope", "path", "ext", "size"}

MutationEntries == {"mkdir", "write", "unlink", "copy", "rename", "rmdir", "rmtree"}

\* the position of the first changing filesystem call, Len(log) + 1 if none
FirstMutation(log) ==
    LET at == {i \in DOMAIN log : log[i] \in MutationEntries}
    IN  IF at = {} THEN Len(log) + 1 ELSE CHOOSE i \in at : \A j \in at : i <= j

CountOf(seq, e) == Cardinality({i \in DOMAIN seq : seq[i] = e})

TwoPathTools == {"copy_file", "move_file", "move_directory"}

ContentWritingTools ==
    {"create_file", "write_file", "write_lines", "insert_lines", "append_lines",
     "replace_in_file", "find_and_replace_lines"}

\* the policy checks a tool is subject to: extension and size where it
\* writes content, extension where it names or edits a file otherwise
PolicyChecks(tool) ==
    IF tool \in ContentWritingTools THEN {"ext", "size"}
    ELSE IF tool \in {"delete_lines", "copy_file", "move_file"} THEN {"ext"}
    ELSE {}

\* the errors of the checks
CheckFailures ==
    {"InsufficientPermissions", "PathOutside", "ExtensionNotAllowed", "TooLarge"}

\* what precedes the first change: the credential check first, one path
\* check for each path argument and the policy checks; no check follows it
Preceded(log, first, path_checks, policy) ==
    LET m == FirstMutation(log)
        prefix == SubSeq(log, 1, m - 1)
    IN  m <= Len(log) =>
            /\ m > 1 /\ log[1] = first
            /\ CountOf(prefix, "path") = path_checks
            /\ policy \subseteq Range(prefix)
            /\ \A i \in m..Len(log) : log[i] \notin CheckEntries

\* the operation a POST asks for, "" when it is no tools/call with one
OperationOf(body) == Get(Get(Get(body, "params", <<>>), "arguments", <<>>),
                         "operation", "")

PresentedKey(headers) ==
    LET authorization == Get(headers, "Authorization", "")
    IN  IF Get(headers, "X-API-Key", "") # "" THEN headers["X-API-Key"]
        ELSE IF StartsWith(authorization, "Bearer ") THEN From(authorization, 7)
        ELSE authorization

\* C6: a POST with a JSON object as its body whose key is missing or is not
\* the configured key is answered with error -32001 "Invalid API key" and
\* the request's id; no method is dispatched and nothing changes.
C6_InvalidKeyRejected ==
    (/\ last.server = "http"
     /\ last.body \notin {MalformedBody, NonObjectBody}
     /\ PresentedKey(last.headers) # API_KEY)
        => /\ last.response = error_response(Get(last.body, "id", "null"), -32001,
                                             "Invalid API key")
           /\ last.log = <<>>
           /\ fs = last.before

\* the allow-list is empty: what the setting "" is read as
EmptyAllowList == ALLOWED_EXTENSIONS \in {<<>>, <<"">>}

\* the path's lower-cased suffix is a member of the allow-list
SuffixAllowed(raw) == Lower(Suffix(raw)) \in Range(ALLOWED_EXTENSIONS)

\* C7: create_file and write_file pass the extension check for every path
\* when the allow-list is empty, and otherwise exactly for the paths whose
\* lower-cased suffix is a member of it; a call whose path fails the check
\* is rejected with the extension error (the path error, when the path
\* leaves the base directory as well) and changes nothing.
C7_ExtensionCheck ==
    (last.server = "fastmcp" /\ last.tool \in {"create_file", "write_file"}
     /\ ~ScopeRejected) =>
        LET raw    == last.args.file_path
            passes == EmptyAllowList \/ SuffixAllowed(raw)
        IN  /\ passes => last.err # "ExtensionNotAllowed"
            /\ ~passes =>
                  /\ ~last.ok
                  /\ last.err \in {"ExtensionNotAllowed", "PathOutside"}
                  /\ last.err = "PathOutside" =>
                        ~StartsWith(Str(Resolved(raw)), Str(base_dir))
                  /\ fs = last.before
            /\ (passes /\ StartsWith(Str(Resolved(raw)), Str(base_dir))) =>
                  "ext" \in Range(last.log)

\* create_file of a.exe was rejected under the allow-list ".txt,.md" and no
\* a.exe exists, on a filesystem where A.TXT had been created
C7_Witness ==
    /\ last.server = "fastmcp"
    /\ last.tool = "create_file"
    /\ last.args.file_path = "a.exe"
    /\ last.err = "ExtensionNotAllowed"
    /\ ALLOWED_EXTENSIONS = <<".txt", ".md">>
    /\ ~Exists(fs, base_dir \o <<"a.exe">>)
    /\ Exists(fs, base_dir \o <<"A.TXT">>)

\* every file is within the size limit, counted in UTF-8 bytes
AllWithinLimit ==
    \A p \in DOMAIN fs : IsFile(fs, p) => Utf8Len(fs[p].data) <= MAX_FILE_SIZE

\* the call got as far as its size test: it was not rejected before, and
\* the file it names was absent (create_file) or present (the other tools)
ReachedSizeTest ==
    /\ "ext" \in Range(last.log)
    /\ IF last.tool = "create_file"
       THEN ~Exists(last.before, Resolved(last.args.file_path))
       ELSE IsFile(last.before, Resolved(last.args.file_path))

C9_CreateFile ==
    (/\ last.server = "fastmcp"
     /\ last.tool = "create_file"
     /\ "ext" \in Range(last.log)) =>
        LET target == Resolved(last.args.file_path)
        IN  IF Exists(last.before, target)
            THEN ~last.ok /\ last.err = "AlreadyExists" /\ fs = last.before
            ELSE (/\ Utf8Len(last.args.content) <= MAX_FILE_SIZE
                  /\ \A a \in Ancestors(target) : ~IsFile(last.before, a)) =>
                    /\ last.ok
                    /\ fs[target] = File(last.args.content)
                    /\ \A a \in Ancestors(target) \ {target} : IsDir(fs, a)

\* C10: read_file right after a successful write_file of the same path
\* returns the written content, character for character.
C10_RoundTrip ==
    [][(/\ last.server = "fastmcp"
        /\ last.tool = "write_file"
        /\ last.ok
        /\ last'.server = "fastmcp"
        /\ last'.tool = "read_file"
        /\ last'.args.file_path = last.args.file_path)
       => /\ last'.ok
          /\ last'.out = "File: " \o RelStr(Resolved(last.args.file_path)) \o "\n\n"
                         \o last.args.content]_vars

\* C11: delete_file of a path inside the base directory removes it when it
\* is a regular file, leaving every other entry as it was; on an absent path
\* (a path deleted by an earlier call included) it fails with the not-found
\* error and on a directory it fails, both changing nothing.  A path outside
\* the base directory never succeeds.
C11_DeleteFile ==
    (/\ last.server = "fastmcp"
     /\ last.tool = "delete_file"
     /\ "path" \in Range(last.log)) =>
        LET target == Resolved(last.args.file_path)
        IN  IF ~IsRelativeTo(target, base_dir) THEN ~last.ok
            ELSE IF IsFile(last.before, target)
            THEN last.ok /\ fs = Without(last.before, {target})
            ELSE IF IsDir(last.before, target)
            THEN ~last.ok /\ last.err = "IsDirectory" /\ fs = last.before
            ELSE ~last.ok /\ last.err = "NotFound" /\ fs = last.before

\* delete_file of a.txt failed with the not-found error after an earlier
\* call had deleted a.txt
C11_Witness ==
    /\ last.server = "fastmcp"
    /\ last.tool = "delete_file"
    /\ last.args.file_path = "a.txt"
    /\ last.err = "NotFound"
    /\ calls = 2
    /\ IsFile(InitialFs, base_dir \o <<"a.txt">>)

\* C12: delete_lines(file_path, start_line, end_line) on a regular file
\* inside the base directory: with 1 <= start_line <= end_line and start_line
\* not beyond the last line, the lines of the file afterwards are the lines
\* before start_line followed by the lines after end_line, unchanged and in
\* order, and nothing else changes; "line1\nline2\nline3" with (2, 2) becomes
\* "line1\nline3".  start_line < 1 or start_line > end_line fails with the
\* invalid-range error and start_line beyond the last line with the
\* range-exceeded error, both leaving the file as it was.
C12_DeleteLines ==
    (/\ last.server = "fastmcp"
     /\ last.tool = "delete_lines"
     /\ "path" \in Range(last.log)) =>
        LET target == Resolved(last.args.file_path)
            s      == last.args.start_line
            e      == last.args.end_line
        IN  IF ~IsRelativeTo(target, base_dir) THEN ~last.ok
            ELSE IF ~IsFile(last.before, target)
            THEN ~last.ok /\ fs = last.before
            ELSE LET old == SplitLines(ReadText(last.before, target))
                     n   == Len(old)
                 IN  IF s < 1 \/ s > e
                     THEN ~last.ok /\ last.err = "InvalidRange" /\ fs = last.before
                     ELSE IF s > n
                     THEN ~last.ok /\ last.err = "RangeExceeded" /\ fs = last.before
                     ELSE /\ last.ok
                          /\ IsFile(fs, target)
                          /\ SplitLines(ReadText(fs, target))
                                = SubSeq(old, 1, s - 1) \o SubSeq(old, e + 1, n)
                          /\ Without(fs, {target}) = Without(last.before, {target})
                          /\ (last.before[target].data = "line1\nline2\nline3"
                              /\ s = 2 /\ e = 2)
                                => fs[target].data = "line1\nline3"

\* C13: when read_lines(file_path, s, e) has been served on a file of n lines
\* with 1 <= s <= e <= n and the next call is write_lines on the same file
\* with start_line s and e - s + 1 replacement lines, that call succeeds and
\* the file then has exactly n lines, those outside s..e being as they were.
C13_ReadThenWriteLines ==
    [][(/\ last.server = "fastmcp"
        /\ last.tool = "read_lines"
        /\ last.ok
        /\ last'.tool = "write_lines"
        /\ last'.args.file_path = last.args.file_path
        /\ last'.args.start_line = last.args.start_line
        /\ LET target == Resolved(last.args.file_path)
               s      == last.args.start_line
               e      == last.args.end_line
           IN  /\ IsRelativeTo(target, base_dir)
               /\ 1 <= s
               /\ s <= e
               /\ e <= Len(SplitLines(ReadText(fs, target)))
               /\ Len(last'.args.lines_array) = e - s + 1)
       => LET target == Resolved(last.args.file_path)
              s      == last.args.start_line
              e      == last.args.end_line
              old    == SplitLines(ReadText(fs, target))
              new    == SplitLines(ReadText(fs', target))
          IN  /\ last'.ok
              /\ Len(new) = Len(old)
              /\ \A i \in 1..Len(old) : (i < s \/ i > e) => new[i] = old[i]]_vars

\* C14: search_in_file on a regular file inside the base directory, with a
\* literal pattern or a regular expression that compiles, succeeds and
\* reports, in ascending order of line number, "<number>: <text>" for exactly
\* the lines that hold the pattern as a substring (regex unset) or that
\* re.search matches (regex set), numbered from 1; "^#" as a regular
\* expression over "# title\nbody\n# sub" reports lines 1 and 3.  No call of
\* search_in_file changes the filesystem, and a path outside the base
\* directory never succeeds.
C14_SearchInFile ==
    (/\ last.server = "fastmcp"
     /\ last.tool = "search_in_file"
     /\ "path" \in Range(last.log)) =>
        LET target  == Resolved(last.args.file_path)
            pattern == last.args.pattern
            regex   == last.args.regex
        IN  /\ fs = last.before
            /\ IF ~IsRelativeTo(target, base_dir) \/ ~IsFile(fs, target)
               THEN ~last.ok
               ELSE LET lines  == SplitLines(ReadText(fs, target))
                        hit(i) == IF regex THEN ReSearch(pattern, lines[i])
                                  ELSE Contains(lines[i], pattern) \/ pattern = ""
                        found[i \in 0..Len(lines)] ==
                            IF i = 0 THEN <<>>
                            ELSE IF hit(i)
                            THEN found[i - 1] \o <<ToString(i) \o ": " \o lines[i]>>
                            ELSE found[i - 1]
                        matches == found[Len(lines)]
                    IN  (~regex \/ ReCompiles(pattern)) =>
                          /\ last.ok
                          /\ IF matches = <<>> THEN ~StartsWith(last.out, "Found ")
                             ELSE last.out = "Found " \o ToString(Len(matches))
                                      \o " matches in " \o RelStr(target) \o ":\n"
                                      \o Join(matches, "\n")
                          /\ (fs[target].data = "# title\nbody\n# sub"
                              /\ pattern = "^#" /\ regex)
                                => last.out = "Found 2 matches in a.txt:\n"
                                       \o "1: # title\n3: # sub"

C14_Witness ==
    /\ last.server = "fastmcp"
    /\ last.tool = "search_in_file"
    /\ last.args = [file_path |-> "a.txt", pattern |-> "^#", regex |-> TRUE]
    /\ fs[base_dir \o <<"a.txt">>].data = "# title\nbody\n# sub"
    /\ last.ok
    /\ last.out = "Found 2 matches in a.txt:\n1: # title\n3: # sub"

\* C15: a call of move_file that passes validation, with both paths inside
\* the base directory, the source a regular file, nothing at the destination
\* and no regular file among the destination's ancestors, succeeds: every
\* ancestor of the destination is then a directory, the destination holds
\* what the source held, the source is gone and every other entry is as it
\* was.  A read_file of the source that follows a successful move_file fails
\* with the not-found error.  A move_file naming a path outside the base
\* directory never succeeds.
C15_MoveFile ==
    [][/\ (/\ last'.tool = "move_file"
           /\ "ext" \in Range(last'.log)) =>
              LET src == Resolved(last'.args.source_path)
                  dst == Resolved(last'.args.dest_path)
              IN  IF ~IsRelativeTo(src, base_dir) \/ ~IsRelativeTo(dst, base_dir)
                  THEN ~last'.ok
                  ELSE (/\ IsFile(fs, src)
                        /\ ~Exists(fs, dst)
                        /\ \A a \in Ancestors(dst) : ~IsFile(fs, a)) =>
                          /\ last'.ok
                          /\ \A a \in Ancestors(dst) : IsDir(fs', a)
                          /\ fs'[dst] = fs[src]
                          /\ ~Exists(fs', src)
                          /\ \A q \in DOMAIN fs : q # src => fs'[q] = fs[q]
                          /\ DOMAIN fs' \subseteq DOMAIN fs \cup Ancestors(dst) \cup {dst}
       /\ (/\ last.server = "fastmcp"
           /\ last.tool = "move_file"
           /\ last.ok
           /\ last'.tool = "read_file"
           /\ last'.args.file_path = last.args.source_path) =>
              ~last'.ok /\ last'.err = "NotFound"]_vars

C15_Witness ==
    /\ last.server = "fastmcp"
    /\ last.tool = "read_file"
    /\ last.args.file_path = "a.txt"
    /\ last.err = "NotFound"
    /\ ~Exists(fs, base_dir \o <<"a.txt">>)
    /\ ~Exists(InitialFs, base_dir \o <<"new">>)
    /\ IsDir(fs, base_dir \o <<"new", "sub">>)
    /\ fs[base_dir \o <<"new", "sub", "m.txt">>] = File("one\ntwo")

\* C16: a POST whose body parses as a JSON object is answered by a response
\* with jsonrpc "2.0", the id of the request (null when it has none) and
\* exactly one of "result" and "error".  When the request carries the key,
\* "initialize" and "tools/list" are answered with a result, "tools/call" is
\* never answered -32601, and every other method is answered with the error
\* -32601.
C16_JsonRpcResponse ==
    (/\ last.server = "http"
     /\ last.body # MalformedBody
     /\ last.body # NonObjectBody) =>
        LET response == last.response
            method   == Get(last.body, "method", PyNone)
            failed   == "error" \in DOMAIN response
        IN  /\ response.jsonrpc = "2.0"
            /\ response.id = Get(last.body, "id", "null")
            /\ failed # ("result" \in DOMAIN response)
            /\ "api_key" \in Range(last.log) =>
                 CASE method \in {"initialize", "tools/list"} -> ~failed
                   [] method = "tools/call" ->
                        failed => response.error.code # -32601
                   [] OTHER -> failed /\ response.error.code = -32601

C16_Witness ==
    /\ last.server = "http"
    /\ last.headers = ("X-API-Key" :> "key1")
    /\ last.body = [jsonrpc |-> "2.0", id |-> "4", method |-> "resources/list"]
    /\ last.response.id = "4"
    /\ last.response.error.code = -32601

\* the codes of the failure kinds that hold for a POST to server.py, on the
\* filesystem f it finds: -32700 for a body that is no JSON, -32001 for a key
\* that is not the configured one, -32601 for an unknown method, -32602 for
\* a validation failure of a tools/call (unknown tool, missing operation or
\* file_path, path leaving the base directory, unknown operation, extension
\* not allowed or content over the limit for create and write) and -32000
\* for an operation the state of the filesystem defeats
FailureCodes(f, headers, body) ==
    LET method    == Get(body, "method", PyNone)
        params    == Get(body, "params", <<>>)
        arguments == Get(params, "arguments", <<>>)
        operation == Get(arguments, "operation", "")
        file_path == Get(arguments, "file_path", "")
        content   == Get(arguments, "content", "")
        target    == Resolved(file_path)
        called    == method = "tools/call"
        invalid   ==
            \/ Get(params, "name", PyNone) # "local_file_mcp_server"
            \/ operation = ""
            \/ file_path = ""
            \/ ~IsRelativeTo(target, base_dir)
            \/ operation \notin {"read", "write", "create", "delete", "list"}
            \/ /\ operation \in {"create", "write"}
               /\ \/ ALLOWED_EXTENSIONS # <<>> /\ ~SuffixAllowed(file_path)
                  \/ Utf8Len(content) > MAX_FILE_SIZE
        defeated  ==
            CASE operation = "read"   -> ~IsFile(f, target)
              [] operation = "write"  -> ~IsFile(f, target)
              [] operation = "create" ->
                    \/ Exists(f, target)
                    \/ \E a \in Ancestors(target) : IsFile(f, a)
              [] operation = "delete" -> ~IsFile(f, target)
              [] operation = "list"   -> ~IsDir(f, target)
              [] OTHER                -> FALSE
    IN  IF body = MalformedBody
        THEN {-32700} \cup (IF PresentedKey(headers) # API_KEY THEN {-32001} ELSE {})
        ELSE (IF PresentedKey(headers) # API_KEY THEN {-32001} ELSE {})
             \cup (IF method \notin {"initialize", "tools/list", "tools/call"}
                   THEN {-32601} ELSE {})
             \cup (IF called /\ invalid THEN {-32602} ELSE {})
             \cup (IF called /\ ~invalid /\ defeated THEN {-32000} ELSE {})

\* C17: a POST whose body is no JSON or is a JSON object is answered with an
\* error exactly when a failure kind holds for it, and the code of the error
\* is then the code of a kind that holds: no request is answered with the
\* code of a kind that does not hold for it.
C17_ErrorCodes ==
    (last.server = "http" /\ last.body # NonObjectBody) =>
        LET codes == FailureCodes(last.before, last.headers, last.body)
        IN  IF codes = {} THEN "error" \notin DOMAIN last.response
            ELSE /\ "error" \in DOMAIN last.response
                 /\ last.response.error.code \in codes

\* the tools that change the sandbox
MutatingTools ==
    {"create_file", "write_file", "write_lines", "insert_lines", "delete_lines",
     "append_lines", "replace_in_file", "find_and_replace_lines", "copy_file",
     "move_file", "create_directory", "delete_directory", "move_directory"}

\* C18: after a call of a mutating tool that returns an error, the
\* filesystem, the sandbox with it, is exactly as the call found it.
C18_FailedCallChangesNothing ==
    (/\ last.server = "fastmcp"
     /\ last.tool \in MutatingTools
     /\ ~last.ok) => fs = last.before

\* C19: list_files(".") is handed the base directory and reports
\* "Contents of .:" followed by one line for every immediate child of the
\* base directory and for nothing else, in ascending order of name, each
\* line being "directory: " or "file: " and the child's path relative to the
\* base directory.  A call of list_files, create_file, create_directory or
\* delete_file with a path that starts with "/" is handed the same path and
\* returns and leaves the same as that call on the same filesystem with the
\* path without its leading "/".
C19_ListBaseAndLeadingSlash ==
    (last.server = "fastmcp" /\ "path" \in Range(last.log)) =>
        /\ (last.tool = "list_files" /\ last.args.directory_path = ".") =>
              LET children == {q \in DOMAIN fs : Len(q) = Len(base_dir) + 1
                                                 /\ IsRelativeTo(q, base_dir)}
                  rank(q)  == 1 + Cardinality({p \in children :
                                                  TextLess(Name(p), Name(q))})
                  child(i) == CHOOSE q \in children : rank(q) = i
                  expected == [i \in 1..Cardinality(children) |->
                                 (IF IsDir(fs, child(i)) THEN "directory: "
                                  ELSE "file: ") \o Name(child(i))]
              IN  /\ last.paths = <<base_dir>>
                  /\ last.ok
                  /\ fs = last.before
                  /\ last.out = "Contents of .:\n" \o Join(expected, "\n")
        /\ LET raw == IF last.tool = "list_files" THEN last.args.directory_path
                      ELSE IF last.tool = "create_directory" THEN last.args.dir_path
                      ELSE last.args.file_path
               r   == CASE last.tool = "list_files" ->
                             list_files(last.before, last.token, Tail(raw))
                        [] last.tool = "create_file" ->
                             create_file(last.before, last.token, Tail(raw),
                                         last.args.content)
                        [] last.tool = "create_directory" ->
                             create_directory(last.before, last.token, Tail(raw))
                        [] last.tool = "delete_file" ->
                             delete_file(last.before, last.token, Tail(raw))
           IN  (Len(raw) > 1 /\ Head(raw) = "/") =>
                  /\ last.paths = <<Resolve(base_dir \o PathParts(Tail(raw)))>>
                  /\ r.paths = last.paths
                  /\ r.ok = last.ok
                  /\ r.out = last.out
                  /\ r.fs = fs

C19_Witness ==
    /\ last.server = "fastmcp"
    /\ last.tool = "list_files"
    /\ last.args.directory_path = "."
    /\ last.out = "Contents of .:\nfile: Z.txt\nfile: a.txt\ndirectory: d"

\* C20: write_lines(file_path, lines_array, start_line) on a regular file
\* inside the base directory: with start_line >= 1 (and a result within the
\* size limit) it succeeds, and the lines of the file are then the first
\* start_line - 1 original lines, the given lines and the original lines
\* from start_line + len(lines_array) on, as many lines as before; with
\* start_line < 1 it fails with the invalid-start error and the file is as
\* it was.
C20_WriteLines ==
    (/\ last.server = "fastmcp"
     /\ last.tool = "write_lines"
     /\ "ext" \in Range(last.log)) =>
        LET target == Resolved(last.args.file_path)
            s      == last.args.start_line
            given  == last.args.lines_array
        IN  IF ~IsRelativeTo(target, base_dir) THEN ~last.ok
            ELSE IsFile(last.before, target) =>
                 LET old    == SplitLines(ReadText(last.before, target))
                     n      == Len(old)
                     kept   == [i \in 1..Min(s - 1, n) |-> old[i]]
                     rest   == [i \in 1..Max(0, n - (s + Len(given)) + 1) |->
                                  old[s + Len(given) + i - 1]]
                     result == kept \o given \o rest
                 IN  IF s < 1
                     THEN ~last.ok /\ last.err = "InvalidLine" /\ fs = last.before
                     ELSE Utf8Len(Join(result, "\n")) <= MAX_FILE_SIZE =>
                            /\ last.ok
                            /\ SplitLines(ReadText(fs, target)) = result
                            /\ Len(SplitLines(ReadText(fs, target))) = n

\* C21: insert_lines(file_path, content, line_number) on a regular file
\* inside the base directory: with line_number >= 1 (and a result within the
\* size limit) it succeeds, the file then has as many lines more as content
\* has, the lines of content stand at line_number and the lines after it,
\* the original lines before line_number stand where they stood and the
\* original lines from line_number on follow the inserted ones in their
\* order; with line_number < 1 it fails with the invalid-line error and the
\* file is as it was.
C21_InsertLines ==
    (/\ last.server = "fastmcp"
     /\ last.tool = "insert_lines"
     /\ "ext" \in Range(last.log)) =>
        LET target == Resolved(last.args.file_path)
            p      == last.args.line_number
            given  == SplitLines(last.args.content)
            k      == Len(given)
        IN  IF ~IsRelativeTo(target, base_dir) THEN ~last.ok
            ELSE IsFile(last.before, target) =>
                 LET old == SplitLines(ReadText(last.before, target))
                     n   == Len(old)
                     new == SplitLines(ReadText(fs, target))
                 IN  IF p < 1
                     THEN ~last.ok /\ last.err = "InvalidLine" /\ fs = last.before
                     ELSE Utf8Len(ReadText(last.before, target)) + 1
                            + Utf8Len(last.args.content) <= MAX_FILE_SIZE =>
                            /\ last.ok
                            /\ Len(new) = n + k
                            /\ p + k - 1 <= Len(new)
                            /\ \A i \in 1..k : new[p + i - 1] = given[i]
                            /\ \A i \in 1..n : new[IF i < p THEN i ELSE i + k] = old[i]

\* C22: append_lines(file_path, content) on a regular file inside the base
\* directory (and a result within the size limit) succeeds, and the file
\* then holds what it held, followed by content; a "\n" stands between the
\* two exactly when both are non-empty and what the file held does not end
\* with "\n".
C22_AppendLines ==
    (/\ last.server = "fastmcp"
     /\ last.tool = "append_lines"
     /\ "ext" \in Range(last.log)) =>
        LET target == Resolved(last.args.file_path)
            added  == last.args.content
        IN  IF ~IsRelativeTo(target, base_dir) THEN ~last.ok
            ELSE IsFile(last.before, target) =>
                 LET existing  == last.before[target].data
                     separator == IF existing = "" \/ added = ""
                                     \/ EndsWith(existing, "\n")
                                  THEN "" ELSE "\n"
                 IN  Utf8Len(existing) + 1 + Utf8Len(added) <= MAX_FILE_SIZE =>
                        /\ last.ok
                        /\ fs[target].data = existing \o separator \o added
                        /\ StartsWith(fs[target].data, existing)

\* text with its occurrences of search replaced, scanning from the left and
\* resuming behind each occurrence, at most limit of them (all of them when
\* limit is negative), and how many were replaced; the empty text occurs
\* before every character and at the end
RECURSIVE ScanReplace(_, _, _, _)
ScanReplace(text, search, replace, limit) ==
    IF limit = 0 THEN [out |-> text, hits |-> 0]
    ELSE IF text = ""
    THEN IF search = "" THEN [out |-> replace, hits |-> 1]
         ELSE [out |-> "", hits |-> 0]
    ELSE IF search = ""
    THEN LET r == ScanReplace(Tail(text), search, replace, limit - 1)
         IN  [out |-> replace \o SubSeq(text, 1, 1) \o r.out, hits |-> r.hits + 1]
    ELSE IF StartsWith(text, search)
    THEN LET r == ScanReplace(SubSeq(text, Len(search) + 1, Len(text)),
                              search, replace, limit - 1)
         IN  [out |-> replace \o r.out, hits |-> r.hits + 1]
    ELSE LET r == ScanReplace(Tail(text), search, replace, limit)
         IN  [out |-> SubSeq(text, 1, 1) \o r.out, hits |-> r.hits]

\* C23: replace_in_file on a regular file inside the base directory: when
\* the search text occurs in the text of the file, the call (its result
\* being within the size limit) succeeds, the file then holds the text with
\* every occurrence replaced when `all` is set and with the first one
\* replaced otherwise, and the message reports the number of occurrences
\* replaced; when it does not occur, the call succeeds with a message that
\* says so, writes nothing and the filesystem is as it was.
C23_ReplaceInFile ==
    (/\ last.server = "fastmcp"
     /\ last.tool = "replace_in_file"
     /\ "ext" \in Range(last.log)) =>
        LET target == Resolved(last.args.file_path)
        IN  IF ~IsRelativeTo(target, base_dir) THEN ~last.ok
            ELSE IsFile(last.before, target) =>
                 LET r == ScanReplace(ReadText(last.before, target), last.args.search,
                                      last.args.replace,
                                      IF last.args.all THEN -1 ELSE 1)
                 IN  IF r.hits = 0
                     THEN /\ last.ok
                          /\ StartsWith(last.out, "No occurrences of ")
                          /\ "write" \notin Range(last.log)
                          /\ fs = last.before
                     ELSE Utf8Len(r.out) <= MAX_FILE_SIZE =>
                            /\ last.ok
                            /\ fs[target].data = r.out
                            /\ StartsWith(last.out,
                                  "Successfully replaced " \o ToString(r.hits)
                                      \o " occurrence(s) of ")

C23_Witness ==
    /\ last.server = "fastmcp"
    /\ last.tool = "replace_in_file"
    /\ last.args = [file_path |-> "a.txt", search |-> "line", replace |-> "",
                    all |-> FALSE]
    /\ last.before[base_dir \o <<"a.txt">>].data = "line1\nline2\nline3"
    /\ fs[base_dir \o <<"a.txt">>].data = "1\nline2\nline3"
    /\ StartsWith(last.out, "Successfully replaced 1 occurrence(s)")

\* C24: a call of copy_file or move_file that passes validation, with both
\* paths inside the base directory, fails and changes nothing when the
\* destination exists, when the source is absent and when the source is a
\* directory; after a successful copy_file the source is what it was and
\* the destination holds the same content.
C24_NoOverwrite ==
    (/\ last.server = "fastmcp"
     /\ last.tool \in {"copy_file", "move_file"}
     /\ "ext" \in Range(last.log)) =>
        LET src == Resolved(last.args.source_path)
            dst == Resolved(last.args.dest_path)
        IN  (IsRelativeTo(src, base_dir) /\ IsRelativeTo(dst, base_dir)) =>
                IF \/ Exists(last.before, dst)
                   \/ ~Exists(last.before, src)
                   \/ IsDir(last.before, src)
                THEN ~last.ok /\ fs = last.before
                ELSE (last.tool = "copy_file" /\ last.ok) =>
                        /\ fs[src] = last.before[src]
                        /\ fs[dst] = last.before[src]

\* copy_file of a.txt to c.txt was refused because an earlier copy_file had
\* made c.txt, which still holds the content of a.txt
C24_Witness ==
    /\ last.server = "fastmcp"
    /\ last.tool = "copy_file"
    /\ last.args = [source_path |-> "a.txt", dest_path |-> "c.txt"]
    /\ last.err = "DestExists"
    /\ ~Exists(InitialFs, base_dir \o <<"c.txt">>)
    /\ fs[base_dir \o <<"c.txt">>] = File("one\ntwo")
    /\ fs[base_dir \o <<"a.txt">>] = File("one\ntwo")

\* C25: delete_directory on a path inside the base directory fails with the
\* not-found error when nothing is there, with the not-a-directory error on
\* a regular file and, recursive being unset, with the not-empty error on a
\* directory that has an entry, each time changing nothing; with recursive
\* set it succeeds on a directory and removes it with everything below it,
\* and nothing else.  A path outside the base directory never succeeds.
C25_DeleteDirectory ==
    (/\ last.server = "fastmcp"
     /\ last.tool = "delete_directory"
     /\ "path" \in Range(last.log)) =>
        LET target == Resolved(last.args.dir_path)
            f      == last.before
        IN  IF ~IsRelativeTo(target, base_dir) THEN ~last.ok
            ELSE IF ~Exists(f, target)
            THEN ~last.ok /\ last.err = "NotFound" /\ fs = f
            ELSE IF IsFile(f, target)
            THEN ~last.ok /\ last.err = "NotDirectory" /\ fs = f
            ELSE IF ~last.args.recursive
            THEN (\E q \in DOMAIN f : q # target /\ IsRelativeTo(q, target)) =>
                    (~last.ok /\ last.err = "NotEmpty" /\ fs = f)
            ELSE /\ last.ok
                 /\ DOMAIN fs = {q \in DOMAIN f : ~IsRelativeTo(q, target)}
                 /\ \A q \in DOMAIN fs : fs[q] = f[q]

\* delete_directory("d", recursive) removed d and d/n.md and left a.txt
C25_Witness ==
    /\ last.server = "fastmcp"
    /\ last.tool = "delete_directory"
    /\ last.args = [dir_path |-> "d", recursive |-> TRUE]
    /\ last.ok
    /\ IsFile(last.before, base_dir \o <<"d", "n.md">>)
    /\ ~Exists(fs, base_dir \o <<"d">>)
    /\ ~Exists(fs, base_dir \o <<"d", "n.md">>)
    /\ Exists(fs, base_dir \o <<"a.txt">>)

\* C26: search_in_file with regex set and a pattern that does not compile,
\* on a regular file inside the base directory, fails with the invalid-regex
\* error whatever the file holds, a file with no lines included.
C26_InvalidRegex ==
    (/\ last.server = "fastmcp"
     /\ last.tool = "search_in_file"
     /\ "path" \in Range(last.log)
     /\ last.args.regex
     /\ ~ReCompiles(last.args.pattern)
     /\ IsRelativeTo(Resolved(last.args.file_path), base_dir)
     /\ IsFile(last.before, Resolved(last.args.file_path)))
        => ~last.ok /\ last.err = "InvalidRegex"

\* C27: when two content-modifying calls on one file run concurrently, the
\* file, once no call is in the middle of writing it, holds exactly the
\* complete text computed by the call that wrote last, never a mixture of
\* the two results
C27_LastWriterWins ==
    (last.server = "race" /\ \A p \in Procs : running[p].pc # "opened") =>
        fs[last.target].data = last.pending

\* C28: the base directory exists, as a directory, in every reachable state:
\* no call of delete_directory or move_directory (given ".", "" or "/" as
\* the path, or any other) removes it or moves it elsewhere
C28_BaseDirSurvives == IsDir(fs, base_dir)

\* C30: the number of deleted lines a successful delete_lines reports is
\* the number of lines the file has lost (its line count before the call
\* minus its line count after), also when the range ends beyond the last line
C30_DeletedCount ==
    (/\ last.server = "fastmcp"
     /\ last.tool = "delete_lines"
     /\ last.ok) =>
        LET target == Resolved(last.args.file_path)
            old    == SplitLines(ReadText(last.before, target))
            new    == SplitLines(ReadText(fs, target))
        IN  last.out = "Successfully deleted "
                           \o ToString(Len(old) - Len(new)) \o " lines from "
                           \o RelStr(target) \o " (lines "
                           \o ToString(last.args.start_line) \o "-"
                           \o ToString(last.args.end_line) \o ")"

\* C29: under a non-empty allow-list, in a sandbox whose files all had
\* allowed extensions, every regular file inside the base directory has an
\* allowed extension after any sequence of tool calls
C29_OnlyAllowedExtensions ==
    \A q \in DOMAIN fs :
        (IsFile(fs, q) /\ IsRelativeTo(q, base_dir)) => SuffixAllowed(Name(q))

====
